---- MODULE Spec2Model ----
(***************************************************************************)
(* The API gateway (services/api.js) and the views that consume it.        *)
(*                                                                         *)
(* JavaScript values are tagged tuples, <<"null">>, <<"number", n>>,       *)
(* <<"string", s>>, <<"array", seq>>, <<"object", record>>; a string is a  *)
(* sequence of fragments, so that template literals are concatenations and *)
(* substring() is SubSeq on the characters of a raw body.                  *)
(***************************************************************************)
EXTENDS Integers, Sequences, FiniteSets, Bags, TLC

VARIABLES
    token,      \* localStorage['access_token']: null or a string
    inflight,   \* bag of requests handed to fetch() and not yet answered
    last,       \* the latest gateway event (call, settle or logout)
    quiz,       \* the state of the QuizView component that tracks quizStatus
    qv,         \* the state of the QuizView component of LearnModule.jsx
    nav,        \* the navigation state the learning section is rendered from
    learn,      \* the state of the LearnModule component
    loader,     \* the state of the LessonDataLoader component
    admin,      \* the state of the AdminModule component with the tabs
    form,       \* the state of the QuizCreationForm component
    panel,      \* the state of the AdminModule component without tabs
    auth,       \* the state of the LoginForm or SignupForm component
    manager,    \* the state of the LessonQuizManager component
    userMgmt    \* the state of the UserManagement component

gatewayVars == <<token, inflight, last>>
learnVars == <<qv, nav, learn, loader>>
adminVars == <<admin, form, panel>>
viewVars == <<quiz, qv, nav, learn, loader, admin, form, panel, auth, manager, userMgmt>>
vars == <<token, inflight, last, quiz, qv, nav, learn, loader, admin, form, panel, auth, manager, userMgmt>>

-----------------------------------------------------------------------------
(* Bounds and input sets *)

MaxInFlight == 1
\* requests the views keep in flight at once
MaxViewInFlight == 2
\* requests of api.auth in flight at once
MaxAuthInFlight == 2
\* requests of LessonQuizManager in flight at any time
MaxManagerInFlight == 3

\* the strings the backend issues as access tokens
Tokens == {<<"T1">>, <<"T2">>}

undefined == <<"undefined">>
null == <<"null">>
JNum(n) == <<"number", n>>
JStr(s) == <<"string", s>>
JArr(s) == <<"array", s>>
JObj(r) == <<"object", r>>

Min(a, b) == IF a < b THEN a ELSE b

\* JavaScript truthiness of a tagged value
Truthy(v) ==
    CASE v[1] = "undefined" -> FALSE
      [] v[1] = "null" -> FALSE
      [] v[1] = "string" -> v[2] # <<>>
      [] v[1] = "number" -> v[2] # 0
      [] OTHER -> TRUE

\* String(v), as the Error constructor applies it to its message
JsString(v) ==
    CASE v[1] = "string" -> v[2]
      [] v[1] = "undefined" -> <<"undefined">>
      [] v[1] = "null" -> <<"null">>
      [] OTHER -> <<"[object Object]">>

\* obj.name; reading a property of null or undefined is not modelled here,
\* callers test for it first
Prop(v, name) ==
    IF v[1] = "object" /\ name \in DOMAIN v[2] THEN v[2][name] ELSE undefined

-----------------------------------------------------------------------------
(* Operations of the gateway *)

AuthOps == {"auth.login", "auth.signup"}
DefaultReads ==
    {"profile.getStats", "learn.getCategories", "learn.getLessons",
     "wallet.getBalance", "wallet.getHistory"}
PrimaryReads == {"learn.getLessonDetail", "learn.getQuizQuestions"}
AdminOps ==
    {"admin.getUsers", "admin.getAllUsers", "admin.promoteUser",
     "admin.createLesson", "admin.deleteLesson", "admin.uploadQuiz",
     "admin.deleteQuiz", "admin.getAllLessons", "admin.createQuiz"}
Mutations == AuthOps \cup {"learn.submitQuiz"} \cup AdminOps
Ops == AuthOps \cup {"auth.me"} \cup DefaultReads \cup PrimaryReads
          \cup {"learn.submitQuiz"} \cup AdminOps

\* the action name each operation passes to handleFailedResponse
ActionName(op) ==
    CASE op = "auth.login" -> "Login"
      [] op = "auth.signup" -> "Signup"
      [] op = "learn.submitQuiz" -> "Submit Quiz"
      [] op = "admin.getUsers" -> "Fetch Users (Admin)"
      [] op = "admin.getAllUsers" -> "Fetch All Users"
      [] op = "admin.promoteUser" -> "Promote User"
      [] op = "admin.createLesson" -> "Create Lesson"
      [] op = "admin.deleteLesson" -> "Delete Lesson ID"
      [] op = "admin.uploadQuiz" -> "Upload Quiz Questions"
      [] op = "admin.deleteQuiz" -> "Delete Quiz for Lesson ID"
      [] op = "admin.getAllLessons" -> "Fetch All Lessons"
      [] op = "admin.createQuiz" -> "Create Quiz"
      [] OTHER -> "none"

-----------------------------------------------------------------------------
(* The Fetch API: a response body is a stream that can be read once *)

ExcerptLen == 100

Chars(n) == [i \in 1..n |-> "x"]

MkResponse(status, isJson, data, text) ==
    [net |-> "response", ok |-> status = "200", status |-> status,
     json |-> isJson, data |-> data, text |-> text, bodyUsed |-> FALSE]

\* fetch() rejects when the request produces no response at all
NetworkError ==
    [net |-> "rejected", ok |-> FALSE, status |-> "0",
     json |-> FALSE, data |-> undefined, text |-> <<>>, bodyUsed |-> FALSE]

FailResponses ==
    { MkResponse("401", TRUE, JObj([detail |-> JStr(<<"Not authenticated">>)]), Chars(3)),
      MkResponse("400", TRUE, JObj([detail |-> JStr(<<"QuizAlreadyCompleted">>)]), Chars(3)),
      MkResponse("500", TRUE, JObj([error |-> JStr(<<"boom">>)]), Chars(3)),
      MkResponse("500", FALSE, undefined, Chars(ExcerptLen + 20)),
      MkResponse("404", FALSE, undefined, Chars(9)) }

Categories ==
    <<[category |-> "JAMB", count |-> 2], [category |-> "Chemistry", count |-> 1],
      [category |-> "Jamb", count |-> 0]>>
Lessons == <<[id |-> "abc-123", title |-> "Intro", category |-> "JAMB"]>>
Questions == <<[id |-> "q1"], [id |-> "q2"]>>

\* the lessons the backend lists for a category
ChemistryLessons == <<[id |-> "xyz-9", title |-> "Atoms", category |-> "Chemistry"]>>
LessonsOf(category) ==
    CASE category = <<"JAMB">> -> Lessons
      [] category = <<"Chemistry">> -> ChemistryLessons
      [] OTHER -> <<>>

\* the users the backend lists
SystemUsers ==
    <<[id |-> "u0", name |-> "Ada", is_admin |-> TRUE],
      [id |-> "u1", name |-> "Bob", is_admin |-> FALSE],
      [id |-> "u2", name |-> "Cy", is_admin |-> FALSE]>>

OkData(op) ==
    CASE op \in AuthOps ->
            {JObj([access_token |-> JStr(t), token_type |-> "bearer"]) : t \in Tokens}
      [] op = "auth.me" ->
            {JObj([id |-> "u1", name |-> "Ada", email |-> "a@x", is_admin |-> FALSE,
                   created_at |-> "2024-01-01"])}
      [] op = "profile.getStats" ->
            {JObj([lessons_completed |-> 3, quizzes_taken |-> 2])}
      [] op = "learn.getCategories" -> {JArr(Categories)}
      [] op = "learn.getLessons" -> {JArr(Lessons)}
      [] op = "learn.getLessonDetail" -> {JObj(Lessons[1])}
      [] op = "learn.getQuizQuestions" -> {JArr(Questions)}
      [] op = "learn.submitQuiz" ->
            {JObj([score |-> 100, correct |-> 2, wrong |-> 0, tokens_awarded |-> 10])}
      [] op = "wallet.getBalance" -> {JObj([token_balance |-> 5])}
      [] op = "wallet.getHistory" -> {JArr(<<[id |-> "h1", tokens_earned |-> 10]>>)}
      [] OTHER -> {JObj([message |-> "ok"])}

\* what fetch() can settle to for a request of operation op
FetchResults(op) ==
    {MkResponse("200", TRUE, d, Chars(3)) : d \in OkData(op)}
        \cup FailResponses \cup {NetworkError}

Value(v, res) == [ok |-> TRUE, val |-> v, err |-> "none", res |-> res]
Thrown(e, res) == [ok |-> FALSE, val |-> undefined, err |-> e, res |-> res]

\* res.json(): consumes the body, then parses it
json(res) ==
    IF res.bodyUsed THEN Thrown("TypeError", res)
    ELSE LET used == [res EXCEPT !.bodyUsed = TRUE]
         IN IF res.json THEN Value(res.data, used) ELSE Thrown("SyntaxError", used)

\* res.text(): consumes the body and returns it raw
text(res) ==
    IF res.bodyUsed THEN Thrown("TypeError", res)
    ELSE Value(res.text, [res EXCEPT !.bodyUsed = TRUE])

-----------------------------------------------------------------------------
(* Outcomes of a gateway call *)

Resolved(v) == [kind |-> "resolved", val |-> v, err |-> "none", message |-> <<>>]
Rejected(e, m) == [kind |-> "rejected", val |-> undefined, err |-> e, message |-> m]

BodyAlreadyRead == <<"body stream already read">>
FailedToFetch == <<"Failed to fetch">>
JsonSyntax == <<"Unexpected token in JSON">>

ErrorMessage(e) ==
    CASE e = "TypeError" -> BodyAlreadyRead
      [] e = "SyntaxError" -> JsonSyntax
      [] OTHER -> <<>>

\* `Failed to ${action} (Status: ${res.status})`
GenericMessage(action, status) ==
    <<"Failed to ", action, " (Status: ", status, ")">>

\* `${errorDetail}. Server response: ${text.substring(0, 100)}...`
ExcerptMessage(errorDetail, raw) ==
    errorDetail \o <<". Server response: ">>
        \o SubSeq(raw, 1, Min(ExcerptLen, Len(raw))) \o <<"...">>

\* getAuthHeader that never finds the token (reads the wrong storage key)
getAuthHeaderWrongKey(tok) == [ContentType |-> "application/json"]

\* getAuthHeader(): reads the stored token when the call is made
getAuthHeader(tok) ==
    IF Truthy(tok)
    THEN [ContentType |-> "application/json", Authorization |-> <<"Bearer ">> \o tok[2]]
    ELSE [ContentType |-> "application/json"]

\* the headers login and signup build themselves
JsonHeaders == [ContentType |-> "application/json"]

\* handleFailedResponse that never looks at the body's detail
handleFailedResponseNoDetail(res, action) ==
    Rejected("Error", GenericMessage(action, res.status))

\* handleFailedResponse(res, action): always ends in a throw
handleFailedResponse(res, action) ==
    LET errorDetail == GenericMessage(action, res.status)
        j == json(res)
    IN IF j.ok /\ j.val[1] \notin {"null", "undefined"}
       THEN LET d == Prop(j.val, "detail")
            IN Rejected("Error", IF Truthy(d) THEN JsString(d) ELSE errorDetail)
       ELSE LET t == text(j.res)
            IN IF t.ok
               THEN Rejected("Error", ExcerptMessage(errorDetail, t.val))
               ELSE Rejected(t.err, ErrorMessage(t.err))

\* the settled value of `await res.json()` once mapped to v
JsonThen(j, v) ==
    IF j.ok THEN Resolved(v) ELSE Rejected(j.err, ErrorMessage(j.err))

\* `if (!res.ok) { await handleFailedResponse(res, action); }`: the rejection,
\* or a resolved undefined when the call goes on
FailedOr(res, action) ==
    IF ~res.ok THEN handleFailedResponse(res, action) ELSE Resolved(undefined)

Keep(out, tok) == [out |-> out, token |-> tok]

\* `await fetch(...)`: a rejection propagates out of the async function
FetchRejected(tok) == Keep(Rejected("TypeError", FailedToFetch), tok)

\* localStorage.setItem(key, v) stores String(v)
setItem(v) == JStr(JsString(v))
\* localStorage.removeItem(key)
removeItem == null

\* `if (!res.ok) await handleFailedResponse(...); return res.json();`
FailOrJson(f, tok, action) ==
    IF f.net = "rejected" THEN FetchRejected(tok)
    ELSE LET h == FailedOr(f, action)
         IN IF h.kind = "rejected" THEN Keep(h, tok)
            ELSE LET j == json(f) IN Keep(JsonThen(j, j.val), tok)

\* `if (!res.ok) await handleFailedResponse(...); return {};`
FailOrEmpty(f, tok, action) ==
    IF f.net = "rejected" THEN FetchRejected(tok)
    ELSE LET h == FailedOr(f, action)
         IN IF h.kind = "rejected" THEN Keep(h, tok)
            ELSE Keep(Resolved(JObj(<<>>)), tok)

\* `if (!res.ok) return dflt; const data = await res.json(); return data`
DefaultOrJson(f, tok, dflt) ==
    IF f.net = "rejected" THEN FetchRejected(tok)
    ELSE IF ~f.ok THEN Keep(Resolved(dflt), tok)
    ELSE LET j == json(f) IN Keep(JsonThen(j, j.val), tok)

-----------------------------------------------------------------------------
(* api.auth *)

\* login/signup without the `if (!res.ok)` check
StoreTokenUnchecked(f, tok, action) ==
    IF f.net = "rejected" THEN FetchRejected(tok)
    ELSE LET j == json(f)
         IN IF j.ok
            THEN [out |-> Resolved(j.val),
                  token |-> setItem(Prop(j.val, "access_token"))]
            ELSE Keep(JsonThen(j, j.val), tok)

\* the continuation shared by login and signup after fetch settles
StoreToken(f, tok, action) ==
    IF f.net = "rejected" THEN FetchRejected(tok)
    ELSE LET h == FailedOr(f, action)
         IN IF h.kind = "rejected" THEN Keep(h, tok)
            ELSE LET j == json(f)
                 IN IF j.ok
                    THEN [out |-> Resolved(j.val),
                          token |-> setItem(Prop(j.val, "access_token"))]
                    ELSE Keep(JsonThen(j, j.val), tok)

login(f, tok) == StoreToken(f, tok, "Login")

signup(f, tok) == StoreToken(f, tok, "Signup")

Avatar(name) == <<"https://api.dicebear.com/8.x/initials/svg?seed=", name>>

Profile(data) ==
    JObj([id |-> data[2].id, name |-> data[2].name, email |-> data[2].email,
          is_admin |-> data[2].is_admin, avatar |-> Avatar(data[2].name),
          joined |-> data[2].created_at])

\* me that returns null on a failed fetch without removing the token
meKeepsToken(f, tok) ==
    IF f.net = "rejected" THEN FetchRejected(tok)
    ELSE IF ~f.ok THEN Keep(Resolved(null), tok)
    ELSE LET j == json(f)
         IN Keep(JsonThen(j, IF j.ok THEN Profile(j.val) ELSE undefined), tok)

\* me, after its fetch settles
me(f, tok) ==
    IF f.net = "rejected" THEN FetchRejected(tok)
    ELSE IF ~f.ok THEN [out |-> Resolved(null), token |-> removeItem]
    ELSE LET j == json(f)
         IN Keep(JsonThen(j, IF j.ok THEN Profile(j.val) ELSE undefined), tok)

-----------------------------------------------------------------------------
(* api.profile, api.learn, api.wallet *)

EmptyStats == JObj([lessons_completed |-> 0, quizzes_taken |-> 0])

getStats(f, tok) == DefaultOrJson(f, tok, EmptyStats)

toLowerCase(s) ==
    CASE s = "JAMB" -> "jamb"
      [] s = "Chemistry" -> "chemistry"
      [] s = "Jamb" -> "jamb"
      [] OTHER -> s

\* the color without the JAMB case
CategoryColorDefault(name) == "bg-blue-100 text-blue-600"

CategoryColor(name) ==
    IF name = "JAMB" THEN "bg-purple-100 text-purple-600"
    ELSE "bg-blue-100 text-blue-600"

CategoryView(cat) ==
    [id |-> toLowerCase(cat.category), name |-> cat.category,
     count |-> cat.count, color |-> CategoryColor(cat.category)]

\* data.map(cat => ({...}))
MapCategories(data) == [i \in 1..Len(data) |-> CategoryView(data[i])]

getCategories(f, tok) ==
    IF f.net = "rejected" THEN FetchRejected(tok)
    ELSE IF ~f.ok THEN Keep(Resolved(JArr(<<>>)), tok)
    ELSE LET j == json(f)
         IN Keep(JsonThen(j, IF j.ok THEN JArr(MapCategories(j.val[2]))
                                     ELSE undefined), tok)

WithDuration(l) == [duration |-> "15 min"] @@ l

\* data.map(l => ({...l, duration}))
MapLessons(data) == [i \in 1..Len(data) |-> WithDuration(data[i])]

getLessons(f, tok) ==
    IF f.net = "rejected" THEN FetchRejected(tok)
    ELSE IF ~f.ok THEN Keep(Resolved(JArr(<<>>)), tok)
    ELSE LET j == json(f)
         IN Keep(JsonThen(j, IF j.ok THEN JArr(MapLessons(j.val[2]))
                                     ELSE undefined), tok)

getLessonDetail(f, tok) == DefaultOrJson(f, tok, null)

getQuizQuestions(f, tok) == DefaultOrJson(f, tok, JArr(<<>>))

submitQuiz(f, tok) == FailOrJson(f, tok, "Submit Quiz")

\* getBalance without the `if (!res.ok) return 0` line
getBalanceUnchecked(f, tok) ==
    IF f.net = "rejected" THEN FetchRejected(tok)
    ELSE LET j == json(f)
         IN Keep(JsonThen(j, IF j.ok THEN Prop(j.val, "token_balance")
                                     ELSE undefined), tok)

getBalance(f, tok) ==
    IF f.net = "rejected" THEN FetchRejected(tok)
    ELSE IF ~f.ok THEN Keep(Resolved(JNum(0)), tok)
    ELSE LET j == json(f)
         IN Keep(JsonThen(j, IF j.ok THEN JNum(Prop(j.val, "token_balance"))
                                     ELSE undefined), tok)

getHistory(f, tok) == DefaultOrJson(f, tok, JArr(<<>>))

-----------------------------------------------------------------------------
(* api.admin *)

getUsers(f, tok) == FailOrJson(f, tok, "Fetch Users (Admin)")
getAllUsers(f, tok) == FailOrJson(f, tok, "Fetch All Users")
promoteUser(f, tok) == FailOrJson(f, tok, "Promote User")
createLesson(f, tok) == FailOrJson(f, tok, "Create Lesson")
deleteLesson(f, tok) == FailOrEmpty(f, tok, "Delete Lesson ID")
uploadQuiz(f, tok) == FailOrJson(f, tok, "Upload Quiz Questions")
deleteQuiz(f, tok) == FailOrEmpty(f, tok, "Delete Quiz for Lesson ID")
getAllLessons(f, tok) == FailOrJson(f, tok, "Fetch All Lessons")
createQuiz(f, tok) == FailOrJson(f, tok, "Create Quiz")

\* the continuation of operation op once its fetch has settled to f
Continue(op, f, tok) ==
    CASE op = "auth.login" -> login(f, tok)
      [] op = "auth.signup" -> signup(f, tok)
      [] op = "auth.me" -> me(f, tok)
      [] op = "profile.getStats" -> getStats(f, tok)
      [] op = "learn.getCategories" -> getCategories(f, tok)
      [] op = "learn.getLessons" -> getLessons(f, tok)
      [] op = "learn.getLessonDetail" -> getLessonDetail(f, tok)
      [] op = "learn.getQuizQuestions" -> getQuizQuestions(f, tok)
      [] op = "learn.submitQuiz" -> submitQuiz(f, tok)
      [] op = "wallet.getBalance" -> getBalance(f, tok)
      [] op = "wallet.getHistory" -> getHistory(f, tok)
      [] op = "admin.getUsers" -> getUsers(f, tok)
      [] op = "admin.getAllUsers" -> getAllUsers(f, tok)
      [] op = "admin.promoteUser" -> promoteUser(f, tok)
      [] op = "admin.createLesson" -> createLesson(f, tok)
      [] op = "admin.deleteLesson" -> deleteLesson(f, tok)
      [] op = "admin.uploadQuiz" -> uploadQuiz(f, tok)
      [] op = "admin.deleteQuiz" -> deleteQuiz(f, tok)
      [] op = "admin.getAllLessons" -> getAllLessons(f, tok)
      [] op = "admin.createQuiz" -> createQuiz(f, tok)

\* the headers operation op puts on its request
RequestHeaders(op, tok) ==
    IF op \in AuthOps THEN JsonHeaders ELSE getAuthHeader(tok)

-----------------------------------------------------------------------------
(* The gateway as a state machine *)

NoFetch ==
    [net |-> "none", ok |-> FALSE, status |-> "0",
     json |-> FALSE, data |-> undefined, text |-> <<>>, bodyUsed |-> FALSE]

Event(ev, op, sent, headers, f, out, before) ==
    [ev |-> ev, op |-> op, sent |-> sent, headers |-> headers,
     fetch |-> f, out |-> out, before |-> before]

Pending == [kind |-> "pending", val |-> undefined, err |-> "none", message |-> <<>>]

InitGateway ==
    /\ token \in {null} \cup {JStr(t) : t \in Tokens}
    /\ inflight = EmptyBag
    /\ last = Event("init", "none", FALSE, JsonHeaders, NoFetch, Pending, token)

\* a request handed to fetch(): arg is the argument the URL is built from where
\* the answer depends on it, owner the component whose code awaits the answer,
\* live whether that component is still mounted
Request(op, headers, arg, owner) ==
    [op |-> op, headers |-> headers, arg |-> arg, owner |-> owner, live |-> TRUE]

\* the synchronous part of a call: up to the point where fetch is awaited;
\* bag holds the requests in flight before it, at most cap are kept in flight
CallFrom(bag, op, arg, owner, cap) ==
    /\ IF op = "auth.me" /\ ~Truthy(token)
       THEN /\ inflight' = bag
            /\ last' = Event("settle", op, FALSE, JsonHeaders, NoFetch,
                             Resolved(null), token)
       ELSE LET h == RequestHeaders(op, token)
            IN /\ BagCardinality(bag) < cap
               /\ inflight' = bag (+) SetToBag({Request(op, h, arg, owner)})
               /\ last' = Event("call", op, TRUE, h, NoFetch, Pending, token)
    /\ UNCHANGED token

CallFor(op, arg, owner, cap) == CallFrom(inflight, op, arg, owner, cap)

Call(op) == CallFor(op, <<>>, "api", MaxInFlight)

\* what fetch() can settle to for request r
Responses(r) ==
    IF r.op = "learn.getLessons" /\ r.arg # <<>>
    THEN {MkResponse("200", TRUE, JArr(LessonsOf(r.arg)), Chars(3))}
            \cup FailResponses \cup {NetworkError}
    ELSE IF r.op = "admin.getUsers" /\ r.owner = "UserManagement"
    THEN {MkResponse("200", TRUE, JArr(SystemUsers), Chars(3))}
            \cup FailResponses \cup {NetworkError}
    ELSE FetchResults(r.op)

\* fetch settles for request r and the operation runs to its end
Settle(r, f) ==
    /\ BagIn(r, inflight)
    /\ f \in Responses(r)
    /\ LET c == Continue(r.op, f, token)
       IN /\ token' = c.token
          /\ last' = Event("settle", r.op, TRUE, r.headers, f, c.out, token)
    /\ inflight' = inflight (-) SetToBag({r})

\* the user logs out: the token is dropped
Logout ==
    /\ token' = removeItem
    /\ last' = Event("logout", "logout", FALSE, JsonHeaders, NoFetch, Pending, token)
    /\ UNCHANGED inflight

-----------------------------------------------------------------------------
(* QuizView with quizStatus: 'loading', 'ready', 'completed', 'error' *)

LessonIds == {"abc-123", "xyz-9"}

Unmounted ==
    [mounted |-> FALSE, lessonId |-> "none", loading |-> TRUE,
     quizStatus |-> "loading", questions |-> <<>>]

\* useState initial values, then useEffect runs fetchQuiz up to its await
QuizMount(lid) ==
    /\ ~quiz.mounted
    /\ Call("learn.getQuizQuestions")
    /\ quiz' = [mounted |-> TRUE, lessonId |-> lid, loading |-> TRUE,
                quizStatus |-> "loading", questions |-> <<>>]

\* lessonData.lessonId changes: the effect runs fetchQuiz again
QuizChangeLesson(lid) ==
    /\ quiz.mounted
    /\ lid # quiz.lessonId
    /\ Call("learn.getQuizQuestions")
    /\ quiz' = [quiz EXCEPT !.lessonId = lid, !.loading = TRUE,
                            !.quizStatus = "loading"]

\* fetchQuiz after `await api.learn.getQuizQuestions(...)`: try, catch, finally
fetchQuiz(q, out) ==
    IF out.kind = "resolved"
    THEN [q EXCEPT !.questions = out.val[2], !.quizStatus = "ready",
                   !.loading = FALSE]
    ELSE IF out.message = <<"QuizAlreadyCompleted">>
    THEN [q EXCEPT !.quizStatus = "completed", !.loading = FALSE]
    ELSE [q EXCEPT !.quizStatus = "error", !.loading = FALSE]

\* the question fetch settles and fetchQuiz runs to its end
QuizFetchSettle(r, f) ==
    /\ quiz.mounted
    /\ r.op = "learn.getQuizQuestions"
    /\ Settle(r, f)
    /\ quiz' = fetchQuiz(quiz, Continue(r.op, f, token).out)

\* what the component renders
QuizScreen(q) ==
    IF q.loading THEN "loading"
    ELSE IF q.quizStatus = "completed" THEN "completed"
    ELSE IF q.quizStatus = "error" THEN "error"
    ELSE IF q.quizStatus = "ready" THEN "ready"
    ELSE "nothing"

-----------------------------------------------------------------------------
(* QuizView of LearnModule.jsx: questions, step, answers, result, loadError *)

\* the payloads (learn, quiz) is entered with
QuizPayloads ==
    { JObj([lessonId |-> JStr(<<"abc-123">>), lessonTitle |-> JStr(<<"Intro">>),
            category |-> JStr(<<"JAMB">>)]),
      JObj([lessonId |-> JStr(<<"xyz-9">>)]),
      JObj([lessonTitle |-> JStr(<<"Intro">>)]) }

OptionChars == {"A", "B", "C", "D"}

NoQuestionsFound == <<"No quiz questions found for this lesson.">>
FailedToLoadQuiz ==
    <<"Failed to load quiz. The server may be unavailable (Error 500).">>
SubmissionFailed ==
    <<"Submission failed. Please check your connection and try again.">>

\* useState initial values; passed remembers the answer selected at each
\* handleNext, submits and sent the calls of api.learn.submitQuiz and the
\* array handed to the last, walletCalls and walletUpdate the calls of
\* onUpdateWallet and the argument of the last
QuizViewState(mounted, lessonId) ==
    [mounted |-> mounted, lessonId |-> lessonId, questions |-> <<>>, step |-> 0,
     selectedAnswer |-> null, answers |-> <<>>, quizResult |-> null,
     isLoading |-> FALSE, loadError |-> null, walletUpdate |-> null,
     walletCalls |-> 0, passed |-> <<>>, submits |-> 0, sent |-> <<>>]

\* a render without the test of questions.length
QuizViewScreenUntested(q) ==
    IF Truthy(q.loadError) THEN "error"
    ELSE IF q.isLoading THEN "submitting"
    ELSE IF Truthy(q.quizResult) THEN "result"
    ELSE "question"

\* what QuizView returns from its render
QuizViewScreen(q) ==
    IF Truthy(q.loadError) THEN "error"
    ELSE IF q.isLoading THEN "submitting"
    ELSE IF Len(q.questions) = 0 /\ ~Truthy(q.quizResult) THEN "loading"
    ELSE IF Truthy(q.quizResult) THEN "result"
    ELSE "question"

\* the component mounts: the effect resets loadError and, given a lesson id,
\* requests the questions
QuizViewMount(data) ==
    /\ ~qv.mounted
    /\ LET lessonId == Prop(data, "lessonId")
       IN /\ qv' = QuizViewState(TRUE, lessonId)
          /\ IF Truthy(lessonId)
             THEN CallFor("learn.getQuizQuestions", <<>>, "quiz", MaxViewInFlight)
             ELSE UNCHANGED gatewayVars

\* the .then / .catch of the effect
QuestionsLoaded(q, out) ==
    IF out.kind = "resolved"
    THEN IF Truthy(out.val) /\ out.val[1] = "array" /\ Len(out.val[2]) > 0
         THEN [q EXCEPT !.questions = out.val[2]]
         ELSE [q EXCEPT !.loadError = JStr(NoQuestionsFound)]
    ELSE [q EXCEPT !.loadError = JStr(FailedToLoadQuiz)]

\* the question fetch settles
QuizViewFetchSettle(r, f) ==
    /\ qv.mounted
    /\ r.live
    /\ r.op = "learn.getQuizQuestions"
    /\ Settle(r, f)
    /\ qv' = QuestionsLoaded(qv, Continue(r.op, f, token).out)

handleAnswerSelect(optionChar) ==
    /\ qv.mounted
    /\ QuizViewScreen(qv) = "question"
    /\ qv' = [qv EXCEPT !.selectedAnswer = JStr(<<optionChar>>)]
    /\ UNCHANGED gatewayVars

\* an answers map that is never written
KeepAnswers(answers, id, selected) == answers

\* {...answers, [id]: selected}, kept in the order Object.entries lists it
PutAnswer(answers, id, selected) ==
    IF \E i \in 1..Len(answers) : answers[i].question_id = id
    THEN [i \in 1..Len(answers) |->
            IF answers[i].question_id = id
            THEN [answers[i] EXCEPT !.selected = selected] ELSE answers[i]]
    ELSE Append(answers, [question_id |-> id, selected |-> selected])

\* handleNext up to `await api.learn.submitQuiz(...)`
handleNext ==
    /\ qv.mounted
    /\ QuizViewScreen(qv) = "question"
    /\ qv.selectedAnswer # null
    /\ LET currentQuestion == qv.questions[qv.step + 1]
           newAnswers == PutAnswer(qv.answers, currentQuestion.id, qv.selectedAnswer)
           pass == [question_id |-> currentQuestion.id, selected |-> qv.selectedAnswer]
       IN IF qv.step < Len(qv.questions) - 1
          THEN /\ qv' = [qv EXCEPT !.answers = newAnswers, !.selectedAnswer = null,
                                   !.step = qv.step + 1,
                                   !.passed = Append(@, pass)]
               /\ UNCHANGED gatewayVars
          ELSE /\ qv' = [qv EXCEPT !.answers = newAnswers, !.selectedAnswer = null,
                                   !.isLoading = TRUE,
                                   !.passed = Append(@, pass),
                                   !.submits = @ + 1, !.sent = newAnswers]
               /\ CallFor("learn.submitQuiz", <<>>, "quiz", MaxViewInFlight)

\* result.tokens_awarded, the argument of onUpdateWallet
TokensAwarded(result) ==
    IF result[1] = "object" /\ "tokens_awarded" \in DOMAIN result[2]
    THEN JNum(result[2].tokens_awarded) ELSE undefined

\* handleNext after the await: the rest of try, or catch
Submitted(q, out) ==
    IF out.kind = "resolved" /\ out.val[1] \notin {"null", "undefined"}
    THEN [q EXCEPT !.quizResult = out.val,
                   !.walletUpdate = TokensAwarded(out.val),
                   !.walletCalls = @ + 1]
    ELSE IF out.kind = "resolved"
    THEN [q EXCEPT !.quizResult = out.val, !.isLoading = FALSE,
                   !.loadError = JStr(SubmissionFailed)]
    ELSE [q EXCEPT !.isLoading = FALSE, !.loadError = JStr(SubmissionFailed)]

\* the submission settles
QuizSubmitSettle(r, f) ==
    /\ qv.mounted
    /\ r.live
    /\ r.op = "learn.submitQuiz"
    /\ Settle(r, f)
    /\ qv' = Submitted(qv, Continue(r.op, f, token).out)

\* 'Back to Lesson', on the error screen and on the question screen, and the
\* two buttons of the result screen: the view is left
QuizViewLeave ==
    /\ qv.mounted
    /\ QuizViewScreen(qv) \in {"error", "question", "result"}
    /\ qv' = QuizViewState(FALSE, undefined)
    /\ UNCHANGED gatewayVars

-----------------------------------------------------------------------------
(* LearnModule: categories, list, detail (LessonDataLoader), quiz (QuizView) *)

\* the subViews LearnModule has a branch for, and one it has none for
LearnSubViews == {"categories", "list", "detail", "quiz"}
SubViews == LearnSubViews \cup {"lessons"}

\* obj.name of an object of the gateway, as a JavaScript value
StrProp(v, name) ==
    IF v[1] = "object" /\ name \in DOMAIN v[2] THEN JStr(<<v[2][name]>>)
    ELSE undefined

\* a category of the categories list, as a JavaScript value
CategoryPayload(cat) ==
    JObj([id |-> JStr(<<cat.id>>), name |-> JStr(<<cat.name>>),
          count |-> JNum(cat.count), color |-> JStr(<<cat.color>>)])

\* payloads the shell can hand to the learning section
Payloads ==
    { undefined, null, JStr(<<"abc-123">>), JObj([name |-> JStr(<<"Chemistry">>)]),
      JObj([lessonId |-> JStr(<<"abc-123">>), lessonTitle |-> JStr(<<"Intro">>)]) }

NotShown ==
    [mounted |-> FALSE, subView |-> "none", activeData |-> undefined,
     site |-> "none", crashed |-> FALSE]

\* useState initial values of LearnModule; lessonsFor remembers the category
\* whose response `lessons` was set from
LearnState == [categories |-> <<>>, lessons |-> <<>>, lessonsFor |-> <<>>]

\* useState initial values of LessonDataLoader
LoaderState(mounted, lessonId) ==
    [mounted |-> mounted, lessonId |-> lessonId, loading |-> TRUE,
     lessonData |-> null]

IsNullish(v) == v[1] \in {"null", "undefined"}

\* requests whose component is unmounted: their callbacks change nothing
Abandon(bag, owners) ==
    BagOfAll(LAMBDA r : IF r.owner \in owners THEN [r EXCEPT !.live = FALSE] ELSE r,
             bag)

\* LessonDataLoader with lessonId = payload: mounted, or its effect after a
\* change of lessonId, up to the await
LoaderFetches(payload) ==
    Truthy(payload) /\ ~(loader.mounted /\ loader.lessonId = payload)

LoaderShown(payload) ==
    IF loader.mounted /\ loader.lessonId = payload THEN loader
    ELSE IF loader.mounted
    THEN [loader EXCEPT !.lessonId = payload, !.loading = Truthy(payload)]
    ELSE [LoaderState(TRUE, payload) EXCEPT !.loading = Truthy(payload)]

\* QuizView with lessonData = payload: mounted, or its effect after a change
\* of lessonId
QuizFetches(payload) ==
    LET lessonId == Prop(payload, "lessonId")
    IN Truthy(lessonId) /\ ~(qv.mounted /\ qv.lessonId = lessonId)

QuizShown(payload) ==
    LET lessonId == Prop(payload, "lessonId")
    IN IF qv.mounted /\ qv.lessonId = lessonId THEN qv
       ELSE IF qv.mounted
       THEN [qv EXCEPT !.lessonId = lessonId, !.loadError = null]
       ELSE QuizViewState(TRUE, lessonId)

\* onNavigate('learn', subView, payload) from call site `site`, and what
\* LearnModule does when rendered with the new subView and activeData
navigate(site, subView, payload) ==
    LET crash == subView = "quiz" /\ IsNullish(payload)
        left == (IF subView # "detail" \/ crash THEN {"loader"} ELSE {})
                    \cup (IF subView # "quiz" \/ crash THEN {"quiz"} ELSE {})
                    \cup (IF crash THEN {"learn"} ELSE {})
        bag == Abandon(inflight, left)
        name == Prop(payload, "name")
    IN /\ nav.mounted
       /\ ~nav.crashed
       /\ nav' = [mounted |-> TRUE, subView |-> subView, activeData |-> payload,
                  site |-> site, crashed |-> crash]
       /\ loader' = IF subView = "detail" THEN LoaderShown(payload)
                    ELSE LoaderState(FALSE, undefined)
       /\ qv' = IF subView = "quiz" /\ ~crash THEN QuizShown(payload)
                ELSE QuizViewState(FALSE, undefined)
       /\ UNCHANGED learn
       /\ CASE subView = "list" /\ Truthy(name) ->
                    CallFrom(bag, "learn.getLessons", JsString(name), "learn",
                             MaxViewInFlight)
            [] subView = "detail" /\ LoaderFetches(payload) ->
                    CallFrom(bag, "learn.getLessonDetail", <<>>, "loader",
                             MaxViewInFlight)
            [] subView = "quiz" /\ ~crash /\ QuizFetches(payload) ->
                    CallFrom(bag, "learn.getQuizQuestions", <<>>, "quiz",
                             MaxViewInFlight)
            [] OTHER -> inflight' = bag /\ UNCHANGED <<token, last>>

\* what LearnModule returns from its render
LearnScreen ==
    IF ~nav.mounted THEN "none"
    ELSE IF nav.crashed THEN "TypeError"
    ELSE CASE nav.subView = "categories" -> "categories"
           [] nav.subView = "list" -> "list"
           [] nav.subView = "detail" ->
                IF loader.loading THEN "detail.loading"
                ELSE IF ~Truthy(loader.lessonData) THEN "detail.error"
                ELSE "detail.lesson"
           [] nav.subView = "quiz" -> QuizViewScreen(qv)
           [] OTHER -> "fallback"

\* the request an effect that runs at mount hands to fetch()
Sent(op, arg, owner) == Request(op, RequestHeaders(op, token), arg, owner)

\* LearnModule is mounted with props subView and activeData = payload: the
\* first render, then the effects of the child and of LearnModule itself
MountLearn(site, subView, payload) ==
    LET crash == subView = "quiz" /\ IsNullish(payload)
        name == Prop(payload, "name")
        listed == subView = "list" /\ Truthy(name)
        child == IF subView = "detail" /\ LoaderFetches(payload)
                 THEN {Sent("learn.getLessonDetail", <<>>, "loader")}
                 ELSE IF subView = "quiz" /\ ~crash /\ QuizFetches(payload)
                 THEN {Sent("learn.getQuizQuestions", <<>>, "quiz")}
                 ELSE {}
        own == {Sent("learn.getCategories", <<>>, "learn")}
                    \cup (IF listed
                          THEN {Sent("learn.getLessons", JsString(name), "learn")}
                          ELSE {})
        lastOp == IF listed THEN "learn.getLessons" ELSE "learn.getCategories"
    IN /\ ~nav.mounted
       /\ nav' = [mounted |-> TRUE, subView |-> subView, activeData |-> payload,
                  site |-> site, crashed |-> crash]
       /\ loader' = IF subView = "detail" THEN LoaderShown(payload) ELSE loader
       /\ qv' = IF subView = "quiz" /\ ~crash THEN QuizShown(payload) ELSE qv
       /\ inflight' = IF crash THEN inflight
                      ELSE inflight (+) SetToBag(child \cup own)
       /\ last' = IF crash THEN last
                  ELSE Event("call", lastOp, TRUE, RequestHeaders(lastOp, token),
                             NoFetch, Pending, token)
       /\ UNCHANGED <<token, learn>>

\* the dashboard opens the learning section: onNavigate('learn', 'categories')
EnterLearn == MountLearn("dashboard", "categories", undefined)

\* .then(setCategories); a rejection is not handled
CategoriesSettle(r, f) ==
    /\ r.owner = "learn" /\ r.live /\ r.op = "learn.getCategories"
    /\ Settle(r, f)
    /\ LET out == Continue(r.op, f, token).out
       IN learn' = IF out.kind = "resolved" /\ out.val[1] = "array"
                   THEN [learn EXCEPT !.categories = out.val[2]]
                   ELSE learn
    /\ UNCHANGED <<nav, loader, qv>>

\* fetchLessons: .then(setLessons).catch(e => setLessons([]))
LessonsSettle(r, f) ==
    /\ r.owner = "learn" /\ r.live /\ r.op = "learn.getLessons"
    /\ Settle(r, f)
    /\ LET out == Continue(r.op, f, token).out
       IN learn' = IF out.kind = "resolved" /\ out.val[1] = "array"
                   THEN [learn EXCEPT !.lessons = out.val[2], !.lessonsFor = r.arg]
                   ELSE [learn EXCEPT !.lessons = <<>>, !.lessonsFor = r.arg]
    /\ UNCHANGED <<nav, loader, qv>>

\* fetchLesson of LessonDataLoader after the await: try, catch, finally
LoaderSettle(r, f) ==
    /\ r.owner = "loader" /\ r.live
    /\ Settle(r, f)
    /\ LET out == Continue(r.op, f, token).out
       IN loader' = [loader EXCEPT !.loading = FALSE,
                        !.lessonData = IF out.kind = "resolved" THEN out.val ELSE null]
    /\ UNCHANGED <<nav, learn, qv>>

\* categories view: a category is clicked
CategoryClick(i) ==
    /\ LearnScreen = "categories"
    /\ i \in 1..Len(learn.categories)
    /\ navigate("categories.item", "list", CategoryPayload(learn.categories[i]))

\* list view: 'Back to Categories'
ListBack ==
    /\ LearnScreen = "list"
    /\ navigate("list.back", "categories", undefined)

\* list view: a lesson is clicked
LessonClick(i) ==
    /\ LearnScreen = "list"
    /\ i \in 1..Len(learn.lessons)
    /\ navigate("list.item", "detail", JStr(<<learn.lessons[i].id>>))

\* LessonDataLoader error view: 'Go Back to Categories'
LoaderErrorBack ==
    /\ LearnScreen = "detail.error"
    /\ navigate("detail.error", "categories", undefined)

\* LessonDetailView: 'Back to Lessons'
DetailBack ==
    /\ LearnScreen = "detail.lesson"
    /\ navigate("detail.back", "list",
                JObj([name |-> StrProp(loader.lessonData, "category")]))

\* LessonDetailView: 'Start Quiz to Earn $READS'
DetailStartQuiz ==
    /\ LearnScreen = "detail.lesson"
    /\ navigate("detail.quiz", "quiz",
                JObj([lessonId |-> StrProp(loader.lessonData, "id"),
                      lessonTitle |-> StrProp(loader.lessonData, "title"),
                      category |-> StrProp(loader.lessonData, "category")]))

\* LessonDetail.jsx, the stand-alone detail view: handleStartQuiz
handleStartQuiz ==
    /\ LearnScreen = "detail.lesson"
    /\ navigate("LessonDetail.quiz", "quiz",
                JObj([lessonId |-> StrProp(loader.lessonData, "id")]))

\* LessonDetail.jsx: 'Back to ... Lessons'
LessonDetailBack ==
    /\ LearnScreen = "detail.lesson"
    /\ navigate("LessonDetail.back", "lessons",
                StrProp(loader.lessonData, "category"))

\* QuizView: 'Back to Lesson', on the error screen and on the question screen
QuizBack ==
    /\ LearnScreen \in {"error", "question"}
    /\ navigate("quiz.back", "detail", qv.lessonId)

\* the default fallback: 'View Categories'
FallbackClick ==
    /\ LearnScreen = "fallback"
    /\ navigate("fallback", "categories", undefined)

-----------------------------------------------------------------------------
(* AdminModule with the tabs manage, lessons, categories, users *)

\* the user prop: absent, a learner, an administrator
Users ==
    { undefined, JObj([id |-> "u1", is_admin |-> FALSE]),
      JObj([id |-> "u2", is_admin |-> TRUE]) }

\* the negation of `!user || !user.is_admin`
IsAdminUser(user) == user[1] = "object" /\ user[2].is_admin

AdminTabs == {"manage", "lessons", "categories", "users"}

\* the lessons LessonQuizManager lists
ManagedLessons ==
    { JObj([id |-> JStr(<<"abc-123">>), title |-> JStr(<<"Intro">>)]),
      JObj([id |-> JStr(<<"xyz-9">>), title |-> JStr(<<"Atoms">>)]) }

\* useState initial values of AdminModule; effect tells that the mount effect
\* of the sub-component shown has not run yet, by and from remember the last
\* handler and the tab it was called on
AdminState(mounted, user) ==
    [mounted |-> mounted, user |-> user, activeTab |-> "manage",
     subView |-> "list", activeLesson |-> null, effect |-> FALSE,
     by |-> "none", from |-> "none"]

\* the sub-component AdminModule renders in state a
AdminShown(a) ==
    IF ~a.mounted THEN "none"
    ELSE IF ~IsAdminUser(a.user) THEN "PermissionDenied"
    ELSE CASE a.activeTab = "manage" ->
                IF a.subView = "quiz_form" /\ Truthy(a.activeLesson)
                THEN "QuizCreationForm" ELSE "LessonQuizManager"
           [] a.activeTab = "lessons" -> "LessonCreator"
           [] a.activeTab = "categories" -> "CategoryList"
           [] a.activeTab = "users" -> "UserManagement"
           [] OTHER -> "nothing"

\* the operation the mount effect of a sub-component calls
MountCall(shown) ==
    CASE shown \in {"LessonQuizManager", "LessonCreator", "CategoryList"} ->
            "learn.getCategories"
      [] shown = "UserManagement" -> "admin.getUsers"
      [] OTHER -> "none"

\* AdminModule renders state a: a sub-component that is replaced is
\* unmounted, the one that replaces it is mounted
AdminRender(a) ==
    LET before == AdminShown(admin)
        after == AdminShown(a)
    IN IF after = before
       THEN /\ admin' = a
            /\ UNCHANGED gatewayVars
       ELSE /\ admin' = [a EXCEPT !.effect = MountCall(after) # "none"]
            /\ MountCall(after) # "none" =>
                    BagCardinality(inflight) < MaxViewInFlight
            /\ inflight' = Abandon(inflight, {before})
            /\ UNCHANGED <<token, last>>

\* AdminModule is mounted with the user prop
AdminMount(user) ==
    /\ ~admin.mounted
    /\ AdminRender(AdminState(TRUE, user))

\* the mount effect of the sub-component shown: fetchCategories, fetchUsers
AdminEffect ==
    /\ admin.effect
    /\ admin' = [admin EXCEPT !.effect = FALSE]
    /\ CallFor(MountCall(AdminShown(admin)), <<>>, AdminShown(admin),
               MaxViewInFlight + 1)

\* a tab button whose click sets the tab only
TabButtonNoReset(name) ==
    /\ AdminShown(admin) \notin {"none", "PermissionDenied"}
    /\ ~admin.effect
    /\ AdminRender([admin EXCEPT !.activeTab = name,
                                 !.by = "TabButton", !.from = admin.activeTab])

\* a tab is clicked: setActiveTab(name); setSubView('list')
TabButton(name) ==
    /\ AdminShown(admin) \notin {"none", "PermissionDenied"}
    /\ ~admin.effect
    /\ AdminRender([admin EXCEPT !.activeTab = name, !.subView = "list",
                                 !.by = "TabButton", !.from = admin.activeTab])

\* a lesson of the list is opened: onSelectLesson(id, title, 'quiz_form')
handleSelectLesson(lesson, targetSubView) ==
    /\ AdminShown(admin) = "LessonQuizManager"
    /\ ~admin.effect
    /\ AdminRender([admin EXCEPT !.activeLesson = lesson, !.subView = targetSubView,
                                 !.by = "handleSelectLesson",
                                 !.from = admin.activeTab])

\* a handleBackToList that leaves the selected lesson
handleBackToListKeepsLesson ==
    /\ AdminShown(admin) = "QuizCreationForm"
    /\ ~admin.effect
    /\ AdminRender([admin EXCEPT !.subView = "list", !.by = "handleBackToList",
                                 !.from = admin.activeTab])

\* 'Back to Lesson List', and onComplete of the quiz form
handleBackToList ==
    /\ AdminShown(admin) = "QuizCreationForm"
    /\ ~admin.effect
    /\ AdminRender([admin EXCEPT !.activeLesson = null, !.subView = "list",
                                 !.by = "handleBackToList",
                                 !.from = admin.activeTab])

\* the answer to the request of a mount effect arrives; the lists of the
\* sub-components are not part of this model
AdminSettle(r, f) ==
    /\ ~admin.effect
    /\ Settle(r, f)
    /\ UNCHANGED admin

-----------------------------------------------------------------------------
(* QuizCreationForm, in its two copies *)

FormCopies == {"part_001", "AdminModule.jsx"}

\* String.prototype.trim on a string given as its characters
RECURSIVE trim(_)
trim(str) ==
    IF str # <<>> /\ Head(str) = " " THEN trim(Tail(str))
    ELSE IF str # <<>> /\ str[Len(str)] = " "
    THEN trim(SubSeq(str, 1, Len(str) - 1))
    ELSE str

initialQuestion ==
    [question |-> <<>>, options |-> <<<<>>, <<>>, <<>>, <<>>>>, correct_answer |-> ""]

\* the contents handleQuestionChange, handleOptionChange, addQuestion and
\* removeQuestion can bring the form to: a question filled in, the same with
\* one field left empty or an option of spaces only, and lists of two
QuestionLists ==
    LET filled == [question |-> <<"2", "+", "2">>,
                   options |-> <<<<"3">>, <<"4">>, <<" ", "5">>, <<"6", " ">>>>,
                   correct_answer |-> "B"]
        blankOption == [filled EXCEPT !.options[2] = <<" ", " ">>]
    IN { <<initialQuestion>>, <<filled>>,
         <<[filled EXCEPT !.question = <<>>]>>,
         <<[filled EXCEPT !.options[4] = <<>>]>>,
         <<blankOption>>,
         <<[filled EXCEPT !.correct_answer = ""]>>,
         <<filled, initialQuestion>>,
         <<filled, blankOption>>,
         <<filled, [filled EXCEPT !.correct_answer = "D"]>> }

CompleteAllFields ==
    "Please complete all fields (question, 4 options, and correct answer) for every question."

\* useState initial values of QuizCreationForm; submitted, called and by
\* remember the questions the last submit found, whether the last handler
\* called the gateway, and the last handler; failedFor is the lesson of the
\* last call of this form that failed
QuizFormState(mounted, copy, lessonId) ==
    [mounted |-> mounted, copy |-> copy, lessonId |-> lessonId,
     questions |-> <<initialQuestion>>, isLoading |-> FALSE, toast |-> "",
     submitted |-> <<>>, called |-> FALSE, by |-> "none", failedFor |-> <<>>]

\* the lessonId argument of a gateway call, as the characters of the URL
LessonArg(lessonId) == IF Truthy(lessonId) THEN lessonId[2] ELSE <<>>

\* the form is shown for a lesson
FormMount(copy, lesson) ==
    /\ ~form.mounted
    /\ form' = QuizFormState(TRUE, copy, lesson[2].id)
    /\ UNCHANGED gatewayVars

\* the fields are edited until the form holds qs
EditQuestions(qs) ==
    /\ form.mounted
    /\ form' = [form EXCEPT !.questions = qs, !.by = "edit"]
    /\ UNCHANGED gatewayVars

\* the test of handleSubmit on one option
OptionGiven(copy, opt) ==
    IF copy = "part_001" THEN trim(opt) # <<>> ELSE opt # <<>>

\* const isValid = questions.every(...)
isValid(copy, questions) ==
    \A i \in 1..Len(questions) :
        LET q == questions[i]
        IN /\ q.question # <<>>
           /\ \A o \in 1..Len(q.options) : OptionGiven(copy, q.options[o])
           /\ q.correct_answer \in {"A", "B", "C", "D"}

\* handleSubmit up to `await api.admin.uploadQuiz(...)`, or to its return
handleSubmit ==
    /\ form.mounted
    /\ ~form.isLoading
    /\ IF ~isValid(form.copy, form.questions)
       THEN /\ form' = [form EXCEPT !.isLoading = FALSE, !.toast = CompleteAllFields,
                                    !.submitted = form.questions, !.called = FALSE,
                                    !.by = "handleSubmit"]
            /\ UNCHANGED gatewayVars
       ELSE /\ form' = [form EXCEPT !.isLoading = TRUE,
                                    !.toast = IF form.copy = "part_001"
                                              THEN "Uploading Quiz..." ELSE "",
                                    !.submitted = form.questions, !.called = TRUE,
                                    !.by = "handleSubmit"]
            /\ CallFor("admin.uploadQuiz", LessonArg(form.lessonId),
                       "QuizCreationForm", MaxViewInFlight)

\* handleSubmit after the await: the rest of try with onComplete, which
\* closes the form, or catch and finally
UploadSettle(r, f) ==
    /\ form.mounted
    /\ r.live /\ r.op = "admin.uploadQuiz"
    /\ Settle(r, f)
    /\ form' = IF Continue(r.op, f, token).out.kind = "resolved"
               THEN [QuizFormState(FALSE, "none", null)
                        EXCEPT !.toast = "Quiz uploaded successfully", !.by = "settle"]
               ELSE [form EXCEPT !.isLoading = FALSE, !.toast = "Failed to upload quiz.",
                                 !.by = "settle"]

\* 'Back to Lesson List' closes the form
FormLeave ==
    /\ form.mounted
    /\ form' = QuizFormState(FALSE, "none", null)
    /\ inflight' = Abandon(inflight, {"QuizCreationForm"})
    /\ UNCHANGED <<token, last>>

\* an upload settles after the form was closed
UploadSettleClosed(r, f) ==
    /\ ~r.live /\ r.op = "admin.uploadQuiz"
    /\ Settle(r, f)
    /\ UNCHANGED form

-----------------------------------------------------------------------------
(* AdminModule({ user }) with its QuizCreationForm *)

\* the QuizCreationForm AdminModule renders in state a: the one that is
\* mounted stays as it is, one that is mounted starts from its initial
\* values with lessonId={activeLesson.id}
EditorOf(a) ==
    IF AdminShown(a) # "QuizCreationForm" THEN QuizFormState(FALSE, "none", null)
    ELSE IF form.mounted THEN form
    ELSE QuizFormState(TRUE, "part_001", a.activeLesson[2].id)

\* 'Delete Existing Quiz': handleDeleteQuiz up to its await, or to its
\* return; confirmed is the answer to window.confirm
handleDeleteQuiz(confirmed) ==
    /\ form.mounted
    /\ ~form.isLoading
    /\ IF ~Truthy(form.lessonId) \/ ~confirmed
       THEN /\ form' = [form EXCEPT !.called = FALSE, !.by = "handleDeleteQuiz"]
            /\ UNCHANGED gatewayVars
       ELSE /\ form' = [form EXCEPT !.isLoading = TRUE, !.toast = "Deleting Quiz...",
                                    !.called = TRUE, !.by = "handleDeleteQuiz"]
            /\ CallFor("admin.deleteQuiz", LessonArg(form.lessonId),
                       "QuizCreationForm", MaxViewInFlight)

\* handleSubmit and handleDeleteQuiz after the await, in the form that made
\* the call or after that form was closed: onToast and onComplete, which
\* is handleBackToList, or catch, and finally
EditorSettle(r, f) ==
    /\ r.owner = "QuizCreationForm"
    /\ ~admin.effect
    /\ BagIn(r, inflight)
    /\ f \in Responses(r)
    /\ LET c == Continue(r.op, f, token)
           a == [admin EXCEPT !.activeLesson = null, !.subView = "list",
                              !.by = "onComplete", !.from = admin.activeTab]
           closes == AdminShown(a) # AdminShown(admin)
           failed == IF r.op = "admin.uploadQuiz" THEN "Failed to upload quiz."
                     ELSE "Failed to delete quiz."
       IN /\ token' = c.token
          /\ last' = Event("settle", r.op, TRUE, r.headers, f, c.out, token)
          /\ IF c.out.kind = "resolved"
             THEN /\ admin' = [a EXCEPT !.effect = closes]
                  /\ inflight' = IF closes
                                 THEN Abandon(inflight (-) SetToBag({r}),
                                              {"QuizCreationForm"})
                                 ELSE inflight (-) SetToBag({r})
                  /\ form' = [QuizFormState(FALSE, "none", null) EXCEPT
                                !.toast = IF r.op = "admin.uploadQuiz"
                                          THEN "Quiz uploaded successfully"
                                          ELSE "Quiz deleted successfully.",
                                !.by = "completed"]
             ELSE /\ UNCHANGED admin
                  /\ inflight' = inflight (-) SetToBag({r})
                  /\ form' = IF r.live
                             THEN [form EXCEPT !.isLoading = FALSE,
                                               !.toast = failed, !.by = "failed",
                                               !.failedFor = r.arg]
                             ELSE [form EXCEPT !.toast = failed]

-----------------------------------------------------------------------------
(* AdminModule({ onNavigate }) with AdminLessonList *)

ListOwners == {"AdminLessonList", "AdminLessonList.handleDeleteLesson"}

\* useState initial values of AdminModule and of AdminLessonList; user is the
\* user of the session, which the component does not take as a prop, an empty
\* selectedCategory stands for null, pending names the call that follows the
\* last state change: 'effect' of the selectedCategory effect, 'refresh' of
\* handleDeleteLesson
PanelState(mounted, user) ==
    [mounted |-> mounted, user |-> user, view |-> "list", activeLesson |-> null,
     categories |-> <<>>, selectedCategory |-> <<>>, lessons |-> <<>>,
     isLoading |-> TRUE, pending |-> "none"]

\* what AdminModule renders in state p
PanelShown(p) ==
    IF ~p.mounted THEN "none"
    ELSE IF p.view = "list" THEN "AdminLessonList"
    ELSE IF p.view = "manage_quiz" /\ Truthy(p.activeLesson) THEN "QuizCreationForm"
    ELSE "nothing"

\* AdminLessonList shows its lesson rows with enabled buttons
RowsShown ==
    /\ PanelShown(panel) = "AdminLessonList"
    /\ panel.pending = "none"
    /\ ~panel.isLoading

\* AdminModule is rendered in a session of `user`: AdminLessonList is
\* mounted and its first effect calls getCategories
PanelMount(user) ==
    /\ ~panel.mounted
    /\ panel' = PanelState(TRUE, user)
    /\ CallFor("learn.getCategories", <<>>, "AdminLessonList", MaxViewInFlight)

\* then, catch and finally of the first effect
PanelCategoriesSettle(r, f) ==
    /\ panel.mounted /\ panel.pending = "none"
    /\ r.live /\ r.owner = "AdminLessonList" /\ r.op = "learn.getCategories"
    /\ Settle(r, f)
    /\ LET out == Continue(r.op, f, token).out
       IN panel' =
            IF out.kind = "resolved" /\ Len(out.val[2]) > 0
            THEN [panel EXCEPT !.categories = out.val[2],
                               !.selectedCategory = <<out.val[2][1].name>>,
                               !.isLoading = TRUE, !.pending = "effect"]
            ELSE IF out.kind = "resolved"
            THEN [panel EXCEPT !.categories = out.val[2], !.isLoading = FALSE]
            ELSE [panel EXCEPT !.isLoading = FALSE]

\* a category button: setSelectedCategory(cat.name)
SelectCategory(i) ==
    /\ PanelShown(panel) = "AdminLessonList" /\ panel.pending = "none"
    /\ ~(panel.isLoading /\ panel.selectedCategory = <<>>)
    /\ i \in 1..Len(panel.categories)
    /\ panel' = IF panel.selectedCategory = <<panel.categories[i].name>> THEN panel
                ELSE [panel EXCEPT !.selectedCategory = <<panel.categories[i].name>>,
                                   !.isLoading = TRUE, !.pending = "effect"]
    /\ UNCHANGED gatewayVars

\* the call of the selectedCategory effect, or the refresh of
\* handleDeleteLesson: api.learn.getLessons(selectedCategory)
PanelGetLessons ==
    /\ panel.pending # "none"
    /\ panel' = [panel EXCEPT !.pending = "none"]
    /\ CallFor("learn.getLessons", panel.selectedCategory,
               IF panel.pending = "effect" THEN "AdminLessonList"
               ELSE "AdminLessonList.handleDeleteLesson",
               MaxViewInFlight)

\* then(setLessons), catch and finally of the selectedCategory effect
PanelLessonsSettle(r, f) ==
    /\ panel.mounted /\ panel.pending = "none"
    /\ r.live /\ r.owner = "AdminLessonList" /\ r.op = "learn.getLessons"
    /\ Settle(r, f)
    /\ LET out == Continue(r.op, f, token).out
       IN panel' = [panel EXCEPT !.isLoading = FALSE,
                        !.lessons = IF out.kind = "resolved" /\ out.val[1] = "array"
                                    THEN out.val[2] ELSE <<>>]

\* the delete button of a row, confirmed: handleDeleteLesson of
\* AdminLessonList up to `await api.admin.deleteLesson(lessonId)`
ListDeleteLesson(i) ==
    /\ RowsShown
    /\ i \in 1..Len(panel.lessons)
    /\ panel' = [panel EXCEPT !.isLoading = TRUE]
    /\ CallFor("admin.deleteLesson", <<>>, "AdminLessonList.handleDeleteLesson",
               MaxViewInFlight)

\* handleDeleteLesson after its first await
ListDeleteSettle(r, f) ==
    /\ panel.mounted /\ panel.pending = "none"
    /\ r.live /\ r.owner = "AdminLessonList.handleDeleteLesson"
    /\ r.op = "admin.deleteLesson"
    /\ Settle(r, f)
    /\ panel' = IF Continue(r.op, f, token).out.kind = "resolved"
                THEN [panel EXCEPT !.pending = "refresh"]
                ELSE [panel EXCEPT !.isLoading = FALSE]

\* handleDeleteLesson after its second await
ListRefreshSettle(r, f) ==
    /\ panel.mounted /\ panel.pending = "none"
    /\ r.live /\ r.owner = "AdminLessonList.handleDeleteLesson"
    /\ r.op = "learn.getLessons"
    /\ Settle(r, f)
    /\ LET out == Continue(r.op, f, token).out
       IN panel' = [panel EXCEPT !.isLoading = FALSE,
                        !.lessons = IF out.kind = "resolved" /\ out.val[1] = "array"
                                    THEN out.val[2] ELSE @]

\* the quiz button of a row: onSelectLesson(lesson.id, lesson.title, 'quiz')
\* runs handleSelectLesson of AdminModule, and AdminLessonList is unmounted
PanelSelectLesson(i) ==
    /\ RowsShown
    /\ i \in 1..Len(panel.lessons)
    /\ panel' = [PanelState(TRUE, panel.user) EXCEPT
                    !.view = "quiz", !.isLoading = FALSE,
                    !.activeLesson = JObj([id |-> JStr(<<panel.lessons[i].id>>),
                                           title |-> JStr(<<panel.lessons[i].title>>)])]
    /\ inflight' = Abandon(inflight, ListOwners)
    /\ UNCHANGED <<token, last>>

\* 'Back to Lesson List': handleBackToList, and AdminLessonList is mounted anew
PanelBackToList ==
    /\ panel.mounted /\ panel.view # "list"
    /\ panel' = PanelState(TRUE, panel.user)
    /\ CallFor("learn.getCategories", <<>>, "AdminLessonList", MaxViewInFlight)

\* a request of an AdminLessonList that was unmounted settles
PanelSettleUnmounted(r, f) ==
    /\ ~r.live /\ r.owner \in ListOwners
    /\ Settle(r, f)
    /\ UNCHANGED panel

-----------------------------------------------------------------------------
(* LessonQuizManager *)

ManagerOwners == {"LessonQuizManager", "LessonQuizManager.handleDeleteLesson"}

\* useState initial values of LessonQuizManager; an empty selectedCategory
\* stands for null, toast tells that AdminModule shows a message, chosen is
\* the category the operator clicked last, first the first category of the
\* first list that was not empty, by the last handler
ManagerState(mounted) ==
    [mounted |-> mounted, categories |-> <<>>, selectedCategory |-> <<>>,
     lessons |-> <<>>, isLoading |-> TRUE, toast |-> FALSE,
     chosen |-> <<>>, first |-> <<>>, by |-> "none"]

\* what LessonQuizManager renders in state m
ManagerScreen(m) ==
    IF ~m.mounted THEN "none"
    ELSE IF m.isLoading /\ m.selectedCategory = <<>> THEN "loading"
    ELSE "content"

\* the request of fetchCategories, made in a render with selectedCategory =
\* sel, and the request of fetchLessons(categoryName)
CategoriesRequest(sel, owner, tok) ==
    Request("learn.getCategories", RequestHeaders("learn.getCategories", tok),
            sel, owner)
LessonsRequest(categoryName, owner, tok) ==
    Request("learn.getLessons", RequestHeaders("learn.getLessons", tok),
            categoryName, owner)

\* the two effects run, after a render that changed selectedCategory or
\* onToast: fetchCategories(), and fetchLessons(selectedCategory) if a
\* category is selected
EffectRequests(sel, tok) ==
    SetToBag({CategoriesRequest(sel, "LessonQuizManager", tok)})
        (+) (IF sel # <<>>
             THEN SetToBag({LessonsRequest(sel, "LessonQuizManager", tok)})
             ELSE EmptyBag)

\* the state after the effects ran: fetchLessons sets isLoading
Rerun(m) == [m EXCEPT !.isLoading = IF m.selectedCategory # <<>> THEN TRUE ELSE @]

\* a handler hands the requests of `calls` to fetch(), op being the first
CallAll(op, calls) ==
    /\ inflight' = inflight (+) calls
    /\ BagCardinality(inflight') <= MaxManagerInFlight
    /\ last' = Event("call", op, TRUE, RequestHeaders(op, token), NoFetch,
                     Pending, token)
    /\ UNCHANGED token

\* fetch settles for request r, the operation ends in c, and the code that
\* awaits it hands the requests of `calls` to fetch()
SettleThen(r, f, c, calls) ==
    /\ BagIn(r, inflight)
    /\ f \in Responses(r)
    /\ token' = c.token
    /\ last' = Event("settle", r.op, TRUE, r.headers, f, c.out, token)
    /\ inflight' = (inflight (-) SetToBag({r})) (+) calls
    /\ BagCardinality(inflight') <= MaxManagerInFlight

\* LessonQuizManager is mounted, toastShown telling whether a message of the
\* component shown before is still displayed
ManagerMount(toastShown) ==
    /\ ~manager.mounted
    /\ manager' = [ManagerState(TRUE) EXCEPT !.toast = toastShown, !.by = "mount"]
    /\ CallAll("learn.getCategories", EffectRequests(<<>>, token))

\* fetchCategories after the await, c being what the call ended in, in
\* the effect or at the end of handleDeleteLesson, whose finally follows
CategoriesFetched(r, f, c) ==
    /\ LET ok == c.out.kind = "resolved" /\ c.out.val[1] = "array"
           data == c.out.val[2]
           m1 == IF ok
                 THEN [manager EXCEPT
                        !.categories = data,
                        !.selectedCategory =
                            IF Len(data) > 0 /\ r.arg = <<>>
                            THEN <<data[1].name>> ELSE @,
                        !.first = IF @ = <<>> /\ Len(data) > 0
                                  THEN <<data[1].name>> ELSE @]
                 ELSE [manager EXCEPT !.toast = TRUE]
           m2 == IF r.owner = "LessonQuizManager" THEN m1
                 ELSE [m1 EXCEPT !.isLoading = FALSE]
           rerun == ~ok \/ m1.selectedCategory # manager.selectedCategory
       IN /\ manager' = [(IF rerun THEN Rerun(m2) ELSE m2) EXCEPT
                            !.by = "fetchCategories"]
          /\ SettleThen(r, f, c, IF rerun
                                 THEN EffectRequests(m1.selectedCategory, c.token)
                                 ELSE EmptyBag)

\* api.learn.getCategories of fetchCategories settles
ManagerCategoriesSettle(r, f) ==
    /\ manager.mounted
    /\ r.op = "learn.getCategories" /\ r.owner \in ManagerOwners
    /\ CategoriesFetched(r, f, Continue(r.op, f, token))

\* fetchLessons after the await, in the effect, after 'Refresh' or in
\* handleDeleteLesson, which goes on to `await fetchCategories()`; c is
\* what the call ended in
LessonsFetched(r, f, c) ==
    /\ LET ok == c.out.kind = "resolved" /\ c.out.val[1] = "array"
           m1 == IF ok
                 THEN [manager EXCEPT !.lessons = c.out.val[2], !.isLoading = FALSE]
                 ELSE [manager EXCEPT !.toast = TRUE, !.lessons = <<>>,
                                      !.isLoading = FALSE]
           next == IF r.owner = "LessonQuizManager" THEN EmptyBag
                   ELSE SetToBag({CategoriesRequest(r.arg, r.owner, c.token)})
       IN /\ manager' = [(IF ok THEN m1 ELSE Rerun(m1)) EXCEPT !.by = "fetchLessons"]
          /\ SettleThen(r, f, c, next (+) (IF ok THEN EmptyBag
                                           ELSE EffectRequests(manager.selectedCategory,
                                                               c.token)))

\* api.learn.getLessons of fetchLessons settles
ManagerLessonsSettle(r, f) ==
    /\ manager.mounted
    /\ r.op = "learn.getLessons" /\ r.owner \in ManagerOwners
    /\ LessonsFetched(r, f, Continue(r.op, f, token))

\* a category button: setSelectedCategory(cat.name)
ManagerSelect(i) ==
    /\ ManagerScreen(manager) = "content"
    /\ i \in 1..Len(manager.categories)
    /\ LET sel == <<manager.categories[i].name>>
       IN IF sel = manager.selectedCategory
          THEN /\ manager' = [manager EXCEPT !.chosen = sel, !.by = "select"]
               /\ UNCHANGED gatewayVars
          ELSE /\ manager' = Rerun([manager EXCEPT !.selectedCategory = sel,
                                                   !.chosen = sel, !.by = "select"])
               /\ CallAll("learn.getCategories", EffectRequests(sel, token))

\* 'Refresh': fetchLessons(selectedCategory)
ManagerRefresh ==
    /\ ManagerScreen(manager) = "content"
    /\ ~manager.isLoading
    /\ manager.selectedCategory # <<>>
    /\ manager' = [manager EXCEPT !.isLoading = TRUE, !.by = "refresh"]
    /\ CallAll("learn.getLessons",
               SetToBag({LessonsRequest(manager.selectedCategory,
                                        "LessonQuizManager", token)}))

\* the delete button of lesson i: handleDeleteLesson up to its first await,
\* or to its return; confirmed is the answer to window.confirm. The toast
\* makes AdminModule render, and the effects run with the new onToast
handleDeleteLesson(i, confirmed) ==
    /\ ManagerScreen(manager) = "content"
    /\ ~manager.isLoading
    /\ i \in 1..Len(manager.lessons)
    /\ IF ~confirmed
       THEN /\ manager' = [manager EXCEPT !.by = "declined"]
            /\ UNCHANGED gatewayVars
       ELSE /\ manager' = Rerun([manager EXCEPT !.isLoading = TRUE, !.toast = TRUE,
                                                !.by = "handleDeleteLesson"])
            /\ CallAll("admin.deleteLesson",
                       SetToBag({Request("admin.deleteLesson",
                                         RequestHeaders("admin.deleteLesson", token),
                                         manager.selectedCategory,
                                         "LessonQuizManager.handleDeleteLesson")})
                         (+) EffectRequests(manager.selectedCategory, token))

\* handleDeleteLesson after `await api.admin.deleteLesson(lessonId)`: the
\* toast and fetchLessons(selectedCategory) up to its await, or catch and
\* finally; c is what the call ended in, r.arg the selectedCategory of
\* the render the button was clicked in
LessonDeleted(r, f, c) ==
    IF c.out.kind = "resolved"
    THEN /\ manager' = Rerun([manager EXCEPT !.toast = TRUE, !.isLoading = TRUE,
                                             !.by = "deleted"])
         /\ SettleThen(r, f, c,
                       SetToBag({LessonsRequest(r.arg, r.owner, c.token)})
                         (+) EffectRequests(manager.selectedCategory, c.token))
    ELSE /\ manager' = Rerun([manager EXCEPT !.toast = TRUE, !.isLoading = FALSE,
                                             !.by = "deleteFailed"])
         /\ SettleThen(r, f, c, EffectRequests(manager.selectedCategory, c.token))

\* api.admin.deleteLesson of handleDeleteLesson settles
ManagerDeleteSettle(r, f) ==
    /\ manager.mounted
    /\ r.op = "admin.deleteLesson"
    /\ r.owner = "LessonQuizManager.handleDeleteLesson"
    /\ LessonDeleted(r, f, Continue(r.op, f, token))

\* the message is closed, by its timer or by its button: AdminModule
\* renders, and the effects run with the new onToast
ToastClose ==
    /\ manager.mounted
    /\ manager.toast
    /\ manager' = Rerun([manager EXCEPT !.toast = FALSE, !.by = "onClose"])
    /\ CallAll("learn.getCategories",
               EffectRequests(manager.selectedCategory, token))

-----------------------------------------------------------------------------
(* UserManagement *)

\* useState initial values of UserManagement, with the currentAdminId prop;
\* expected is the list with every role change that succeeded applied to
\* it, by the last handler
UserManagementState(mounted) ==
    [mounted |-> mounted, currentAdminId |-> "", users |-> <<>>,
     isLoading |-> TRUE, error |-> FALSE, expected |-> <<>>, by |-> "none"]

\* the is_admin column of a user list, as the strings of JSON
RolesOf(list) == [i \in 1..Len(list) |-> IF list[i].is_admin THEN "true" ELSE "false"]

\* users.map(u => u.id === id ? { ...u, is_admin: isAdmin } : u)
WithRole(list, id, isAdmin) ==
    [i \in 1..Len(list) |->
        IF list[i].id = id THEN [list[i] EXCEPT !.is_admin = isAdmin] ELSE list[i]]

\* UserManagement is mounted: the effect calls fetchUsers
UsersMount(currentAdminId) ==
    /\ ~userMgmt.mounted
    /\ userMgmt' = [UserManagementState(TRUE) EXCEPT
                        !.currentAdminId = currentAdminId, !.by = "mount"]
    /\ CallFor("admin.getUsers", <<>>, "UserManagement", MaxViewInFlight)

\* fetchUsers after the await
UsersSettle(r, f) ==
    /\ userMgmt.mounted
    /\ r.op = "admin.getUsers" /\ r.owner = "UserManagement"
    /\ Settle(r, f)
    /\ LET out == Continue(r.op, f, token).out
       IN userMgmt' =
            IF out.kind = "resolved"
            THEN [userMgmt EXCEPT !.users = out.val[2], !.expected = out.val[2],
                                  !.error = FALSE, !.isLoading = FALSE,
                                  !.by = "fetchUsers"]
            ELSE [userMgmt EXCEPT !.error = TRUE, !.isLoading = FALSE,
                                  !.by = "fetchUsers"]

\* the button of row i: handlePromotion(user, !user.is_admin) up to its
\* await, or to its return; confirmed is the answer to window.confirm. The
\* request carries what the continuation closes over: the id, the new role
\* and the roles of `users` in the render the button was clicked in
handlePromotion(i, confirmed) ==
    /\ userMgmt.mounted /\ ~userMgmt.isLoading /\ ~userMgmt.error
    /\ i \in 1..Len(userMgmt.users)
    /\ userMgmt.users[i].id # userMgmt.currentAdminId
    /\ IF ~confirmed
       THEN /\ userMgmt' = [userMgmt EXCEPT !.by = "declined"]
            /\ UNCHANGED gatewayVars
       ELSE /\ userMgmt' = [userMgmt EXCEPT !.by = "handlePromotion"]
            /\ CallFor("admin.promoteUser",
                       <<userMgmt.users[i].id,
                         IF userMgmt.users[i].is_admin THEN "false" ELSE "true">>
                           \o RolesOf(userMgmt.users),
                       "UserManagement", MaxViewInFlight)

\* handlePromotion after the await, in the try branch:
\* setUsers(users.map(...)) with the users of the render of the click
Promoted(u, r) ==
    LET closed == [i \in 1..Len(u.users) |->
                        [u.users[i] EXCEPT !.is_admin = r.arg[i + 2] = "true"]]
    IN [u EXCEPT !.users = WithRole(closed, r.arg[1], r.arg[2] = "true"),
                 !.expected = WithRole(u.expected, r.arg[1], r.arg[2] = "true"),
                 !.by = "promoted"]

\* handlePromotion after the await: try, or catch with the message
PromotionSettle(r, f) ==
    /\ userMgmt.mounted
    /\ r.op = "admin.promoteUser" /\ r.owner = "UserManagement"
    /\ Settle(r, f)
    /\ userMgmt' = IF Continue(r.op, f, token).out.kind = "resolved"
                   THEN Promoted(userMgmt, r)
                   ELSE [userMgmt EXCEPT !.by = "promotionFailed"]

-----------------------------------------------------------------------------
(* LoginForm and SignupForm *)

\* useState initial values; succeeded counts the calls of onLoginSuccess
\* since the last submit, stored tells whether a token was stored at the
\* first of them, by names the last handler
AuthFormState ==
    [isLoading |-> FALSE, errorMessage |-> <<>>, succeeded |-> 0,
     stored |-> FALSE, by |-> "none"]

\* handleChange: an input is edited
AuthChange ==
    /\ auth' = [auth EXCEPT !.errorMessage = <<>>, !.by = "handleChange"]
    /\ UNCHANGED gatewayVars

\* handleSubmit of LoginForm (op auth.login) and of SignupForm (op
\* auth.signup) up to the await
AuthSubmit(op) ==
    /\ ~auth.isLoading
    /\ auth' = [auth EXCEPT !.isLoading = TRUE, !.errorMessage = <<>>,
                            !.succeeded = 0, !.stored = FALSE,
                            !.by = "handleSubmit"]
    /\ CallFor(op, <<>>, "AuthForm", MaxViewInFlight)

\* a handleSubmit whose catch leaves isLoading as it is
AuthSubmittedNoFinally(a, c) ==
    IF c.out.kind = "resolved"
    THEN [a EXCEPT !.succeeded = @ + 1, !.stored = Truthy(c.token),
                   !.isLoading = FALSE, !.by = "settle"]
    ELSE [a EXCEPT !.errorMessage = c.out.message, !.by = "settle"]

\* handleSubmit after the await, c being what the gateway call ended in:
\* onLoginSuccess(), or catch with `error.message || "An unexpected login
\* error ..."` ("signup error" in SignupForm), and finally
AuthSubmitted(a, c) ==
    IF c.out.kind = "resolved"
    THEN [a EXCEPT !.succeeded = @ + 1, !.stored = Truthy(c.token),
                   !.isLoading = FALSE, !.by = "settle"]
    ELSE [a EXCEPT !.errorMessage =
                        IF c.out.message # <<>> THEN c.out.message
                        ELSE <<"An unexpected login error occurred. Please try again.">>,
                   !.isLoading = FALSE, !.by = "settle"]

\* the call of a form settles
AuthSettle(r, f) ==
    /\ r.owner = "AuthForm"
    /\ Settle(r, f)
    /\ auth' = AuthSubmitted(auth, Continue(r.op, f, token))

-----------------------------------------------------------------------------
(* Specifications *)

Init ==
    /\ InitGateway
    /\ quiz = Unmounted
    /\ qv = QuizViewState(FALSE, undefined)
    /\ nav = NotShown
    /\ learn = LearnState
    /\ loader = LoaderState(FALSE, undefined)
    /\ admin = AdminState(FALSE, undefined)
    /\ form = QuizFormState(FALSE, "none", null)
    /\ panel = PanelState(FALSE, undefined)
    /\ auth = AuthFormState
    /\ manager = ManagerState(FALSE)
    /\ userMgmt = UserManagementState(FALSE)

\* the gateway under any sequence of calls
Next ==
    \/ \E op \in Ops : Call(op) /\ UNCHANGED viewVars
    \/ \E r \in BagToSet(inflight) : \E f \in FetchResults(r.op) :
            Settle(r, f) /\ UNCHANGED viewVars
    \/ Logout /\ UNCHANGED viewVars

Spec == Init /\ [][Next]_vars

\* the quiz view on top of the gateway
NextQuizLoad ==
    \/ \E lid \in LessonIds : QuizMount(lid) /\ UNCHANGED <<qv, nav, learn, loader, adminVars, auth, manager, userMgmt>>
    \/ \E lid \in LessonIds : QuizChangeLesson(lid) /\ UNCHANGED <<qv, nav, learn, loader, adminVars, auth, manager, userMgmt>>
    \/ \E r \in BagToSet(inflight) : \E f \in FetchResults(r.op) :
            QuizFetchSettle(r, f) /\ UNCHANGED <<qv, nav, learn, loader, adminVars, auth, manager, userMgmt>>
    \/ Logout /\ UNCHANGED viewVars

SpecQuizLoad == Init /\ [][NextQuizLoad]_vars

\* the quiz view of LearnModule.jsx on top of the gateway
NextQuizView ==
    \/ \E data \in QuizPayloads : QuizViewMount(data) /\ UNCHANGED <<quiz, nav, learn, loader, adminVars, auth, manager, userMgmt>>
    \/ \E r \in BagToSet(inflight) : \E f \in FetchResults(r.op) :
            QuizViewFetchSettle(r, f) /\ UNCHANGED <<quiz, nav, learn, loader, adminVars, auth, manager, userMgmt>>
    \/ \E c \in OptionChars : handleAnswerSelect(c) /\ UNCHANGED <<quiz, nav, learn, loader, adminVars, auth, manager, userMgmt>>
    \/ handleNext /\ UNCHANGED <<quiz, nav, learn, loader, adminVars, auth, manager, userMgmt>>
    \/ \E r \in BagToSet(inflight) : \E f \in FetchResults(r.op) :
            QuizSubmitSettle(r, f) /\ UNCHANGED <<quiz, nav, learn, loader, adminVars, auth, manager, userMgmt>>
    \/ QuizViewLeave /\ UNCHANGED <<quiz, nav, learn, loader, adminVars, auth, manager, userMgmt>>

SpecQuizView == Init /\ [][NextQuizView]_vars

\* every request of the quiz view is answered or fails in the end; the user
\* is not bound to do anything
QuizViewSettles ==
    \E r \in BagToSet(inflight) : \E f \in FetchResults(r.op) :
        /\ QuizViewFetchSettle(r, f) \/ QuizSubmitSettle(r, f)
        /\ UNCHANGED <<quiz, nav, learn, loader, adminVars, auth, manager, userMgmt>>

SpecQuizViewLive == SpecQuizView /\ WF_vars(QuizViewSettles)

\* the learning section: navigation, the lists, the lesson and the quiz
NextLearn ==
    \/ EnterLearn /\ UNCHANGED <<quiz, adminVars, auth, manager, userMgmt>>
    \/ \E r \in BagToSet(inflight) : \E f \in Responses(r) :
            CategoriesSettle(r, f) /\ UNCHANGED <<quiz, adminVars, auth, manager, userMgmt>>
    \/ \E r \in BagToSet(inflight) : \E f \in Responses(r) :
            LessonsSettle(r, f) /\ UNCHANGED <<quiz, adminVars, auth, manager, userMgmt>>
    \/ \E r \in BagToSet(inflight) : \E f \in Responses(r) :
            LoaderSettle(r, f) /\ UNCHANGED <<quiz, adminVars, auth, manager, userMgmt>>
    \/ \E i \in 1..Len(learn.categories) : CategoryClick(i) /\ UNCHANGED <<quiz, adminVars, auth, manager, userMgmt>>
    \/ ListBack /\ UNCHANGED <<quiz, adminVars, auth, manager, userMgmt>>
    \/ \E i \in 1..Len(learn.lessons) : LessonClick(i) /\ UNCHANGED <<quiz, adminVars, auth, manager, userMgmt>>
    \/ LoaderErrorBack /\ UNCHANGED <<quiz, adminVars, auth, manager, userMgmt>>
    \/ DetailBack /\ UNCHANGED <<quiz, adminVars, auth, manager, userMgmt>>
    \/ DetailStartQuiz /\ UNCHANGED <<quiz, adminVars, auth, manager, userMgmt>>
    \/ handleStartQuiz /\ UNCHANGED <<quiz, adminVars, auth, manager, userMgmt>>
    \/ LessonDetailBack /\ UNCHANGED <<quiz, adminVars, auth, manager, userMgmt>>
    \/ \E r \in BagToSet(inflight) : \E f \in Responses(r) :
            QuizViewFetchSettle(r, f) /\ UNCHANGED <<quiz, nav, learn, loader, adminVars, auth, manager, userMgmt>>
    \/ \E c \in OptionChars : handleAnswerSelect(c) /\ UNCHANGED <<quiz, nav, learn, loader, adminVars, auth, manager, userMgmt>>
    \/ handleNext /\ UNCHANGED <<quiz, nav, learn, loader, adminVars, auth, manager, userMgmt>>
    \/ \E r \in BagToSet(inflight) : \E f \in Responses(r) :
            QuizSubmitSettle(r, f) /\ UNCHANGED <<quiz, nav, learn, loader, adminVars, auth, manager, userMgmt>>
    \/ QuizBack /\ UNCHANGED <<quiz, adminVars, auth, manager, userMgmt>>
    \/ FallbackClick /\ UNCHANGED <<quiz, adminVars, auth, manager, userMgmt>>

SpecLearn == Init /\ [][NextLearn]_vars

\* LearnModule rendered with any subView and any payload, and its fetches
NextLearnProps ==
    \/ \E sv \in SubViews : \E payload \in Payloads :
            MountLearn("shell", sv, payload) /\ UNCHANGED <<quiz, adminVars, auth, manager, userMgmt>>
    \/ \E r \in BagToSet(inflight) : \E f \in Responses(r) :
            CategoriesSettle(r, f) /\ UNCHANGED <<quiz, adminVars, auth, manager, userMgmt>>
    \/ \E r \in BagToSet(inflight) : \E f \in Responses(r) :
            LessonsSettle(r, f) /\ UNCHANGED <<quiz, adminVars, auth, manager, userMgmt>>
    \/ \E r \in BagToSet(inflight) : \E f \in Responses(r) :
            LoaderSettle(r, f) /\ UNCHANGED <<quiz, adminVars, auth, manager, userMgmt>>
    \/ \E r \in BagToSet(inflight) : \E f \in Responses(r) :
            QuizViewFetchSettle(r, f) /\ UNCHANGED <<quiz, nav, learn, loader, adminVars, auth, manager, userMgmt>>

SpecLearnProps == Init /\ [][NextLearnProps]_vars

\* api.auth with a profile fetch and a login or signup in flight together
NextAuthRace ==
    \/ \E op \in AuthOps \cup {"auth.me"} :
            CallFor(op, <<>>, "api", MaxAuthInFlight) /\ UNCHANGED viewVars
    \/ \E r \in BagToSet(inflight) : \E f \in Responses(r) :
            Settle(r, f) /\ UNCHANGED viewVars

SpecAuthRace == Init /\ [][NextAuthRace]_vars

\* the admin panel with the tabs
NextAdmin ==
    \/ \E user \in Users : AdminMount(user) /\ UNCHANGED <<quiz, learnVars, form, panel, auth, manager, userMgmt>>
    \/ AdminEffect /\ UNCHANGED <<quiz, learnVars, form, panel, auth, manager, userMgmt>>
    \/ \E name \in AdminTabs : TabButton(name) /\ UNCHANGED <<quiz, learnVars, form, panel, auth, manager, userMgmt>>
    \/ \E lesson \in ManagedLessons :
            handleSelectLesson(lesson, "quiz_form") /\ UNCHANGED <<quiz, learnVars, form, panel, auth, manager, userMgmt>>
    \/ handleBackToList /\ UNCHANGED <<quiz, learnVars, form, panel, auth, manager, userMgmt>>
    \/ \E r \in BagToSet(inflight) : \E f \in Responses(r) :
            AdminSettle(r, f) /\ UNCHANGED <<quiz, learnVars, form, panel, auth, manager, userMgmt>>

SpecAdmin == Init /\ [][NextAdmin]_vars

\* the admin panel with the quiz editor it renders
NextAdminEditor ==
    \/ \E user \in Users :
            AdminMount(user) /\ form' = EditorOf(admin') /\ UNCHANGED <<quiz, learnVars, panel, auth, manager, userMgmt>>
    \/ AdminEffect /\ UNCHANGED <<quiz, learnVars, form, panel, auth, manager, userMgmt>>
    \/ \E name \in AdminTabs :
            TabButton(name) /\ form' = EditorOf(admin') /\ UNCHANGED <<quiz, learnVars, panel, auth, manager, userMgmt>>
    \/ \E lesson \in ManagedLessons :
            /\ handleSelectLesson(lesson, "quiz_form")
            /\ form' = EditorOf(admin') /\ UNCHANGED <<quiz, learnVars, panel, auth, manager, userMgmt>>
    \/ handleBackToList /\ form' = EditorOf(admin') /\ UNCHANGED <<quiz, learnVars, panel, auth, manager, userMgmt>>
    \/ \E r \in BagToSet(inflight) : \E f \in Responses(r) :
            /\ r.owner # "QuizCreationForm"
            /\ AdminSettle(r, f) /\ UNCHANGED <<quiz, learnVars, form, panel, auth, manager, userMgmt>>
    \/ \E qs \in {qs \in QuestionLists : Len(qs) = 1 /\ isValid("part_001", qs)} :
            EditQuestions(qs) /\ ~admin.effect /\ UNCHANGED <<quiz, learnVars, admin, panel, auth, manager, userMgmt>>
    \/ handleSubmit /\ ~admin.effect /\ UNCHANGED <<quiz, learnVars, admin, panel, auth, manager, userMgmt>>
    \/ \E confirmed \in BOOLEAN :
            handleDeleteQuiz(confirmed) /\ ~admin.effect /\ UNCHANGED <<quiz, learnVars, admin, panel, auth, manager, userMgmt>>
    \/ \E r \in BagToSet(inflight) : \E f \in Responses(r) :
            EditorSettle(r, f) /\ UNCHANGED <<quiz, learnVars, panel, auth, manager, userMgmt>>

SpecAdminEditor == Init /\ [][NextAdminEditor]_vars

\* the lesson and quiz manager of the admin panel
NextManager ==
    \/ \E toastShown \in BOOLEAN :
            ManagerMount(toastShown) /\ UNCHANGED <<quiz, learnVars, adminVars, auth, userMgmt>>
    \/ \E r \in BagToSet(inflight) : \E f \in Responses(r) :
            ManagerCategoriesSettle(r, f) /\ UNCHANGED <<quiz, learnVars, adminVars, auth, userMgmt>>
    \/ \E r \in BagToSet(inflight) : \E f \in Responses(r) :
            ManagerLessonsSettle(r, f) /\ UNCHANGED <<quiz, learnVars, adminVars, auth, userMgmt>>
    \/ \E r \in BagToSet(inflight) : \E f \in Responses(r) :
            ManagerDeleteSettle(r, f) /\ UNCHANGED <<quiz, learnVars, adminVars, auth, userMgmt>>
    \/ \E i \in 1..Len(manager.categories) :
            ManagerSelect(i) /\ UNCHANGED <<quiz, learnVars, adminVars, auth, userMgmt>>
    \/ ManagerRefresh /\ UNCHANGED <<quiz, learnVars, adminVars, auth, userMgmt>>
    \/ \E i \in 1..Len(manager.lessons) : \E confirmed \in BOOLEAN :
            handleDeleteLesson(i, confirmed) /\ UNCHANGED <<quiz, learnVars, adminVars, auth, userMgmt>>
    \/ ToastClose /\ UNCHANGED <<quiz, learnVars, adminVars, auth, userMgmt>>

SpecManager == Init /\ [][NextManager]_vars

\* the user list of the admin panel
NextUserManagement ==
    \/ \E i \in 1..Len(SystemUsers) :
            UsersMount(SystemUsers[i].id) /\ UNCHANGED <<quiz, learnVars, adminVars, auth, manager>>
    \/ \E r \in BagToSet(inflight) : \E f \in Responses(r) :
            UsersSettle(r, f) /\ UNCHANGED <<quiz, learnVars, adminVars, auth, manager>>
    \/ \E i \in 1..Len(userMgmt.users) : \E confirmed \in BOOLEAN :
            handlePromotion(i, confirmed) /\ UNCHANGED <<quiz, learnVars, adminVars, auth, manager>>
    \/ \E r \in BagToSet(inflight) : \E f \in Responses(r) :
            PromotionSettle(r, f) /\ UNCHANGED <<quiz, learnVars, adminVars, auth, manager>>

SpecUserManagement == Init /\ [][NextUserManagement]_vars

\* a request of the manager settles
ManagerSettles ==
    \E r \in BagToSet(inflight) : \E f \in Responses(r) :
        /\ \/ ManagerCategoriesSettle(r, f)
           \/ ManagerLessonsSettle(r, f)
           \/ ManagerDeleteSettle(r, f)
        /\ UNCHANGED <<quiz, learnVars, adminVars, auth, userMgmt>>

\* the timer of a message that is shown closes it
ToastTimer == ToastClose /\ UNCHANGED <<quiz, learnVars, adminVars, auth, userMgmt>>

\* every request of the manager is answered or fails in the end, and a
\* message is closed in the end; the operator is not bound to do anything
SpecManagerLive ==
    SpecManager /\ WF_vars(ManagerSettles) /\ WF_vars(ToastTimer)

\* the login and signup forms
NextAuthForm ==
    \/ AuthChange /\ UNCHANGED <<quiz, learnVars, adminVars, manager, userMgmt>>
    \/ \E op \in AuthOps : AuthSubmit(op) /\ UNCHANGED <<quiz, learnVars, adminVars, manager, userMgmt>>
    \/ \E r \in BagToSet(inflight) : \E f \in Responses(r) :
            AuthSettle(r, f) /\ UNCHANGED <<quiz, learnVars, adminVars, manager, userMgmt>>

SpecAuthForm == Init /\ [][NextAuthForm]_vars

\* the quiz authoring form
NextQuizForm ==
    \/ \E copy \in FormCopies, lesson \in ManagedLessons :
            FormMount(copy, lesson) /\ UNCHANGED <<quiz, learnVars, admin, panel, auth, manager, userMgmt>>
    \/ \E qs \in QuestionLists : EditQuestions(qs) /\ UNCHANGED <<quiz, learnVars, admin, panel, auth, manager, userMgmt>>
    \/ handleSubmit /\ UNCHANGED <<quiz, learnVars, admin, panel, auth, manager, userMgmt>>
    \/ \E r \in BagToSet(inflight) : \E f \in Responses(r) :
            UploadSettle(r, f) /\ UNCHANGED <<quiz, learnVars, admin, panel, auth, manager, userMgmt>>
    \/ FormLeave /\ UNCHANGED <<quiz, learnVars, admin, panel, auth, manager, userMgmt>>
    \/ \E r \in BagToSet(inflight) : \E f \in Responses(r) :
            UploadSettleClosed(r, f) /\ UNCHANGED <<quiz, learnVars, admin, panel, auth, manager, userMgmt>>

SpecQuizForm == Init /\ [][NextQuizForm]_vars

\* the admin panel without tabs
NextAdminPanel ==
    \/ \E user \in Users : PanelMount(user) /\ UNCHANGED <<quiz, learnVars, admin, form, auth, manager, userMgmt>>
    \/ \E r \in BagToSet(inflight) : \E f \in Responses(r) :
            PanelCategoriesSettle(r, f) /\ UNCHANGED <<quiz, learnVars, admin, form, auth, manager, userMgmt>>
    \/ \E i \in 1..Len(Categories) :
            SelectCategory(i) /\ UNCHANGED <<quiz, learnVars, admin, form, auth, manager, userMgmt>>
    \/ PanelGetLessons /\ UNCHANGED <<quiz, learnVars, admin, form, auth, manager, userMgmt>>
    \/ \E r \in BagToSet(inflight) : \E f \in Responses(r) :
            PanelLessonsSettle(r, f) /\ UNCHANGED <<quiz, learnVars, admin, form, auth, manager, userMgmt>>
    \/ \E i \in 1..Len(Lessons) :
            ListDeleteLesson(i) /\ UNCHANGED <<quiz, learnVars, admin, form, auth, manager, userMgmt>>
    \/ \E r \in BagToSet(inflight) : \E f \in Responses(r) :
            ListDeleteSettle(r, f) /\ UNCHANGED <<quiz, learnVars, admin, form, auth, manager, userMgmt>>
    \/ \E r \in BagToSet(inflight) : \E f \in Responses(r) :
            ListRefreshSettle(r, f) /\ UNCHANGED <<quiz, learnVars, admin, form, auth, manager, userMgmt>>
    \/ \E i \in 1..Len(Lessons) :
            PanelSelectLesson(i) /\ UNCHANGED <<quiz, learnVars, admin, form, auth, manager, userMgmt>>
    \/ PanelBackToList /\ UNCHANGED <<quiz, learnVars, admin, form, auth, manager, userMgmt>>
    \/ \E r \in BagToSet(inflight) : \E f \in Responses(r) :
            PanelSettleUnmounted(r, f) /\ UNCHANGED <<quiz, learnVars, admin, form, auth, manager, userMgmt>>

SpecAdminPanel == Init /\ [][NextAdminPanel]_vars
-----------------------------------------------------------------------------
(* Claims *)

Settled(ops) == last.ev = "settle" /\ last.sent /\ last.op \in ops
Answered == last.fetch.net = "response"
NonSuccess == Answered /\ ~last.fetch.ok
HasAuthorization(h) == "Authorization" \in DOMAIN h

\* the backend reports the session invalid: a 401
SessionInvalid(f) == f.net = "response" /\ f.status = "401"

\* C1: the stored token changes only by login/signup success (to present) and
\* by logout or a server-reported invalid session (to absent); in particular a
\* profile fetch that fails for another reason leaves it alone.
C1_TokenTransitions ==
    token # last.before =>
        \/ Settled(AuthOps) /\ last.fetch.ok /\ Truthy(token)
        \/ last.ev = "logout" /\ token = null
        \/ Settled({"auth.me"}) /\ SessionInvalid(last.fetch) /\ token = null

\* the Authorization header of a call is 'Bearer <t>' for the token t stored
\* when the call is made, and is absent when none is stored
CarriesStoredToken ==
    /\ HasAuthorization(last.headers) <=> last.before # null
    /\ HasAuthorization(last.headers) =>
            last.headers.Authorization = <<"Bearer ">> \o last.before[2]

\* C2 as stated: every operation but login and signup carries the stored token
\* if and only if one is stored, login and signup never do, and no operation
\* is skipped for want of a token.
C2_HeaderAndAlwaysAttempted ==
    /\ last.ev = "call" /\ last.op \notin AuthOps => CarriesStoredToken
    /\ last.ev = "call" /\ last.op \in AuthOps => ~HasAuthorization(last.headers)
    /\ last.ev = "settle" => last.sent

\* C2 amended: as C2, except that auth.me with no token stored sends no
\* request and resolves to null; every other operation is attempted with or
\* without a token.
C2_HeaderAndAttemptedExceptMe ==
    /\ last.ev = "call" /\ last.op \notin AuthOps => CarriesStoredToken
    /\ last.ev = "call" /\ last.op \in AuthOps => ~HasAuthorization(last.headers)
    /\ last.ev = "settle" /\ ~last.sent =>
            last.op = "auth.me" /\ last.before = null /\ last.out = Resolved(null)
    /\ last.ev = "settle" /\ last.op # "auth.me" => last.sent

C2_Witness ==
    /\ last.ev = "call"
    /\ last.op = "wallet.getBalance"
    /\ last.before = JStr(<<"T2">>)
    /\ HasAuthorization(last.headers)

\* C3: login and signup store the response's access_token on success, whatever
\* was stored before, and on a non-success response reject and leave the
\* stored token as it was.
C3_LoginStoresOrRejects ==
    Settled(AuthOps) /\ Answered =>
        IF last.fetch.ok
        THEN /\ last.out.kind = "resolved"
             /\ token = Prop(last.fetch.data, "access_token")
        ELSE /\ last.out.kind = "rejected"
             /\ token = last.before

C3_Witness ==
    /\ Settled({"auth.login"})
    /\ last.fetch.ok
    /\ Truthy(last.before)
    /\ token # last.before

\* C4: auth.me on a non-success response removes the token and resolves to
\* null, so that no later request carries an Authorization header; on success
\* it leaves the token and returns a profile object.
C4_MeClearsOnFailure ==
    Settled({"auth.me"}) /\ Answered =>
        IF last.fetch.ok
        THEN /\ token = last.before
             /\ last.out.kind = "resolved"
             /\ last.out.val[1] = "object"
        ELSE /\ token = null
             /\ last.out = Resolved(null)
             /\ \A op \in Ops : ~HasAuthorization(RequestHeaders(op, token))

C4_Witness ==
    /\ Settled({"auth.me"})
    /\ NonSuccess
    /\ Truthy(last.before)
    /\ token = null

\* the default each defaulting read is documented to fall back to
DefaultOf(op) ==
    CASE op = "learn.getCategories" -> JArr(<<>>)
      [] op = "learn.getLessons" -> JArr(<<>>)
      [] op = "wallet.getHistory" -> JArr(<<>>)
      [] op = "wallet.getBalance" -> JNum(0)
      [] op = "profile.getStats" ->
            JObj([lessons_completed |-> 0, quizzes_taken |-> 0])

\* C5: a defaulting read answered with a non-success response resolves to its
\* default, never rejects and never changes the stored token.
C5_ReadsDefaultOnNonSuccess ==
    Settled(DefaultReads) /\ NonSuccess =>
        /\ last.out = Resolved(DefaultOf(last.op))
        /\ token = last.before

C5_Witness ==
    /\ Settled({"profile.getStats"})
    /\ NonSuccess
    /\ last.out.val = JObj([lessons_completed |-> 0, quizzes_taken |-> 0])

\* C6: a defaulting read whose fetch rejects (no response at all) still
\* resolves to its default.
C6_ReadsDefaultOnTransportFailure ==
    Settled(DefaultReads) /\ last.fetch.net = "rejected" =>
        last.out = Resolved(DefaultOf(last.op))

\* the response body parses and holds a detail
HasDetail(f) == f.json /\ Truthy(Prop(f.data, "detail"))

\* C7: a mutation or admin operation answered with a non-success response
\* rejects, and when the body carries a detail the rejection's message is that
\* detail.
C7_MutationsReject ==
    Settled(Mutations) /\ NonSuccess =>
        /\ last.out.kind = "rejected"
        /\ HasDetail(last.fetch) =>
                last.out.message = Prop(last.fetch.data, "detail")[2]

C7_Witness ==
    /\ Settled({"admin.deleteLesson"})
    /\ NonSuccess
    /\ HasDetail(last.fetch)
    /\ last.out.message = <<"Not authenticated">>

\* C8: when no detail can be had from a non-success response, the operation
\* rejects with an Error whose message is the generic text with at most the
\* first 100 characters of the raw body; nothing else escapes.
C8_UniformFallbackError ==
    Settled(Mutations) /\ NonSuccess /\ ~HasDetail(last.fetch) =>
        /\ last.out.kind = "rejected"
        /\ last.out.err = "Error"
        /\ last.out.message =
                ExcerptMessage(GenericMessage(ActionName(last.op), last.fetch.status),
                               last.fetch.text)

\* C9: getLessonDetail and getQuizQuestions answer a non-success response
\* with a rejection.
C9_PrimaryReadsPropagate ==
    Settled(PrimaryReads) /\ NonSuccess => last.out.kind = "rejected"

\* the backend signals that the lesson's quiz is already completed
AlreadyCompleted(f) ==
    /\ f.net = "response" /\ ~f.ok
    /\ Prop(f.data, "detail") = JStr(<<"QuizAlreadyCompleted">>)

\* C10: once the question fetch has settled, the quiz view shows 'completed'
\* when the backend signalled an already completed quiz and 'error' for any
\* other failure of the fetch.
C10_CompletedOrError ==
    quiz.mounted /\ Settled({"learn.getQuizQuestions"}) /\ ~last.fetch.ok =>
        IF AlreadyCompleted(last.fetch)
        THEN QuizScreen(quiz) = "completed"
        ELSE QuizScreen(quiz) = "error"

\* C11: when the backend answers a quiz submission with the already-completed
\* signal, the quiz view does not end in the generic submission error.
C11_SubmitAlreadyCompleted ==
    qv.mounted /\ Settled({"learn.submitQuiz"}) /\ AlreadyCompleted(last.fetch) =>
        ~(QuizViewScreen(qv) = "error" /\ qv.loadError = JStr(SubmissionFailed))

\* C12: the quiz view shows its loading state while the question fetch is in
\* flight, and shows the question UI only with at least one question loaded.
C12_QuestionUiAfterFetch ==
    quiz.mounted =>
        /\ inflight # EmptyBag => QuizScreen(quiz) = "loading"
        /\ QuizScreen(quiz) = "ready" => Len(quiz.questions) >= 1

\* the call sites of the views of the learning section
ViewSites ==
    {"categories.item", "list.back", "list.item", "detail.error", "detail.back",
     "detail.quiz", "LessonDetail.quiz", "LessonDetail.back", "quiz.back",
     "fallback"}

\* C13: every navigation a view of the learning section makes targets a
\* subView of the section with that subView's payload: an object with a name
\* for list, the lesson id itself for detail, an object with lessonId and
\* lessonTitle for quiz; the back-navigations of the detail views lead to
\* list.
C13_PayloadShapes ==
    nav.site \in ViewSites =>
        /\ nav.subView \in LearnSubViews
        /\ nav.subView = "list" => Prop(nav.activeData, "name") # undefined
        /\ nav.subView = "detail" => nav.activeData[1] = "string"
        /\ nav.subView = "quiz" =>
                /\ Prop(nav.activeData, "lessonId") # undefined
                /\ Prop(nav.activeData, "lessonTitle") # undefined
        /\ nav.site \in {"detail.back", "LessonDetail.back"} => nav.subView = "list"

\* C14: whatever subView and payload LearnModule is rendered with, it
\* renders a view and does not fail on the payload.
C14_RendersSomeView == nav.mounted => LearnScreen # "TypeError"

\* C20: in the list view of a category, once no lesson request is in flight
\* any more, the lessons shown are those answered for that category, in
\* whatever order the answers of earlier list views arrived.
C20_LatestCategoryShown ==
    /\ LearnScreen = "list"
    /\ Truthy(Prop(nav.activeData, "name"))
    /\ \A r \in BagToSet(inflight) : r.op # "learn.getLessons"
    => learn.lessonsFor = JsString(Prop(nav.activeData, "name"))

\* C19: when a profile fetch fails after another token than the one it was
\* sent with has been stored, the stored token is left alone.
C19_FreshTokenSurvives ==
    /\ Settled({"auth.me"}) /\ NonSuccess
    /\ HasAuthorization(last.headers)
    /\ last.before # null
    /\ last.headers.Authorization # <<"Bearer ">> \o last.before[2]
    => token = last.before

JambColor == "bg-purple-100 text-purple-600"
DefaultColor == "bg-blue-100 text-blue-600"

\* C17: a successful getCategories resolves to one view model per category of
\* the server aggregate, in order, with name = category, count = count, id =
\* the category in lower case, and the JAMB color for exactly 'JAMB', the
\* default color for every other name.
C17_CategoryViewModel ==
    Settled({"learn.getCategories"}) /\ last.fetch.ok =>
        /\ last.out.kind = "resolved"
        /\ last.out.val[1] = "array"
        /\ Len(last.out.val[2]) = Len(last.fetch.data[2])
        /\ \A i \in 1..Len(last.fetch.data[2]) :
                LET cat == last.fetch.data[2][i]
                    view == last.out.val[2][i]
                IN /\ DOMAIN view = {"id", "name", "count", "color"}
                   /\ view.name = cat.category
                   /\ view.count = cat.count
                   /\ view.color = IF cat.category = "JAMB" THEN JambColor
                                   ELSE DefaultColor
                   /\ cat.category = "JAMB" => view.id = "jamb"
                   /\ cat.category = "Jamb" => view.id = "jamb"
                   /\ cat.category = "Chemistry" => view.id = "chemistry"

\* a successful getCategories has answered with 'JAMB', 'Chemistry' and 'Jamb'
C17_Witness ==
    /\ Settled({"learn.getCategories"}) /\ last.fetch.ok
    /\ last.out.kind = "resolved"
    /\ \E i, j, k \in 1..Len(last.out.val[2]) :
            /\ last.out.val[2][i].name = "JAMB"
            /\ last.out.val[2][j].name = "Chemistry"
            /\ last.out.val[2][k].name = "Jamb"

\* C15 as stated: after the tab 'users' and then the tab 'manage' have been
\* clicked the admin panel is in (manage, list, no selected lesson) and shows
\* the lesson list.
C15_TabResetsNestedState ==
    admin.by = "TabButton" /\ admin.from = "users" /\ admin.activeTab = "manage"
    => /\ admin.subView = "list"
       /\ admin.activeLesson = null
       /\ AdminShown(admin) = "LessonQuizManager"

\* C15: after a click on any tab the sub view is the list and the quiz
\* editor is not shown, on the tab 'manage' the lesson list is shown; the
\* lesson selected before may still be held.
C15_TabShowsList ==
    admin.by = "TabButton"
    => /\ admin.subView = "list"
       /\ AdminShown(admin) # "QuizCreationForm"
       /\ admin.activeTab = "manage" => AdminShown(admin) = "LessonQuizManager"

\* the quiz editor of a lesson was left by the tab 'users', and the tab
\* 'manage' was clicked then
C15_Witness ==
    /\ admin.by = "TabButton" /\ admin.from = "users"
    /\ admin.activeTab = "manage"
    /\ admin.activeLesson # null
    /\ AdminShown(admin) = "LessonQuizManager"

\* a question with a non-empty text, four non-blank options and a correct
\* answer in A..D
CompleteQuestion(q) ==
    /\ q.question # <<>>
    /\ Len(q.options) = 4
    /\ \A o \in 1..4 : \E i \in 1..Len(q.options[o]) : q.options[o][i] # " "
    /\ q.correct_answer \in {"A", "B", "C", "D"}

\* C16: a submit of the quiz form calls api.admin.uploadQuiz only if every
\* question is complete; a submit that finds an incomplete question makes no
\* call, shows the validation error, leaves the loading flag cleared and
\* keeps the questions.
C16_UploadOnlyValidated ==
    form.by = "handleSubmit" =>
        LET complete == \A i \in 1..Len(form.submitted) :
                            CompleteQuestion(form.submitted[i])
        IN /\ form.called => complete
           /\ ~complete =>
                /\ ~form.called
                /\ form.toast = CompleteAllFields
                /\ ~form.isLoading
                /\ form.questions = form.submitted

\* C18: while the user of the session is absent or is no administrator, the
\* admin panel shows the access-denied view only, and no request of an admin
\* sub-component is in flight.
C18_AdminOnly ==
    panel.mounted /\ ~IsAdminUser(panel.user) =>
        /\ PanelShown(panel) = "PermissionDenied"
        /\ \A r \in BagToSet(inflight) : r.live => r.owner \notin ListOwners

\* C21: in one attempt api.learn.submitQuiz is called at most once, by
\* handleNext on the last question, and the array it is handed holds one pair
\* per fetched question, in their order, with the letter A..D that was
\* selected when the question was passed; no call is made besides.
C21_SubmitOncePerAttempt ==
    LET submitting == {r \in BagToSet(inflight) : r.op = "learn.submitQuiz"}
    IN /\ qv.submits <= 1
       /\ \A r \in submitting : qv.submits = 1 /\ CopiesIn(r, inflight) = 1
       /\ \A i \in 1..Len(qv.passed) :
                /\ qv.passed[i].question_id = qv.questions[i].id
                /\ \E c \in OptionChars : qv.passed[i].selected = JStr(<<c>>)
       /\ qv.submits = 1 =>
                /\ qv.step = Len(qv.questions) - 1
                /\ qv.sent = qv.passed
                /\ Len(qv.sent) = Len(qv.questions)

\* a submission of two different answers has failed
C21_Witness ==
    /\ qv.mounted /\ qv.submits = 1
    /\ Len(qv.sent) = 2 /\ qv.sent[1].selected # qv.sent[2].selected
    /\ Settled({"learn.submitQuiz"}) /\ NonSuccess
    /\ inflight = EmptyBag

\* C22: whenever the question UI is rendered, step is the index of a fetched
\* question and the answers recorded are those of the questions before it;
\* step changes only by one, upwards, together with an answer being recorded.
C22_StepWithinQuestions ==
    /\ [](qv.mounted /\ QuizViewScreen(qv) = "question" =>
            /\ 0 <= qv.step /\ qv.step < Len(qv.questions)
            /\ Len(qv.answers) = qv.step
            /\ \A i \in 1..qv.step :
                    qv.answers[i].question_id = qv.questions[i].id)
    /\ [][qv.mounted /\ qv'.mounted /\ qv'.step # qv.step =>
            /\ qv'.step = qv.step + 1
            /\ Len(qv'.passed) = Len(qv.passed) + 1]_vars

\* the second question is shown, the first is answered
C22_Witness ==
    /\ qv.mounted /\ QuizViewScreen(qv) = "question"
    /\ qv.step = 1 /\ Len(qv.answers) = 1
    /\ qv.selectedAnswer # null

\* C23: once a submission has resolved the quiz view comes to show the result
\* screen, with onUpdateWallet called once, with the tokens awarded; after a
\* submission that failed onUpdateWallet was not called and the error screen
\* is shown.
C23_ResultAfterSubmit ==
    /\ (qv.submits = 1 /\ Settled({"learn.submitQuiz"}) /\ last.out.kind = "resolved"
            /\ ~IsNullish(last.out.val))
          ~> (QuizViewScreen(qv) = "result" /\ qv.walletCalls = 1
                /\ qv.walletUpdate = TokensAwarded(qv.quizResult))
    /\ [](qv.submits = 1 /\ Settled({"learn.submitQuiz"}) /\ last.out.kind = "rejected"
            => qv.walletCalls = 0 /\ QuizViewScreen(qv) = "error")

\* C24: a quiz view that shows its loading screen comes to show another one.
C24_LoadingEnds ==
    (qv.mounted /\ QuizViewScreen(qv) = "loading")
        ~> (qv.mounted /\ QuizViewScreen(qv) # "loading")

\* C25: a login or signup form is loading exactly while its call is in
\* flight; when the call has settled, onLoginSuccess was called once, with a
\* token stored, if the call resolved, and was not called, with the message of
\* the rejection displayed, if it was rejected.
C25_AuthFormSettles ==
    /\ auth.isLoading <=> \E r \in BagToSet(inflight) : r.owner = "AuthForm"
    /\ auth.by = "handleSubmit" => auth.succeeded = 0
    /\ auth.by = "settle" =>
            IF last.out.kind = "resolved"
            THEN /\ auth.succeeded = 1 /\ auth.stored /\ Truthy(token)
                 /\ auth.errorMessage = <<>>
            ELSE /\ auth.succeeded = 0
                 /\ auth.errorMessage = last.out.message
                 /\ auth.errorMessage # <<>>

\* a login made without a stored token has resolved
C25_Witness ==
    /\ auth.by = "settle" /\ last.out.kind = "resolved" /\ auth.succeeded = 1
    /\ last.op = "auth.login" /\ last.before = null

\* C26: the quiz editor is mounted exactly in the states with tab manage,
\* subView quiz_form and a selected lesson, and its lessonId is the id of that
\* lesson; after 'Back to Lesson List' and after the completion callback
\* subView is list and no lesson is selected; after a failed upload or delete
\* the editor is still open, on the lesson the call was made for.
C26_EditorOnSelectedLesson ==
    /\ form.mounted <=> AdminShown(admin) = "QuizCreationForm"
    /\ form.mounted =>
            /\ admin.activeTab = "manage" /\ admin.subView = "quiz_form"
            /\ admin.activeLesson # null
            /\ form.lessonId = admin.activeLesson[2].id
    /\ admin.by \in {"handleBackToList", "onComplete"} =>
            /\ admin.subView = "list" /\ admin.activeLesson = null
            /\ ~form.mounted
    /\ form.by = "failed" =>
            /\ form.mounted /\ ~form.isLoading
            /\ form.lessonId = JStr(form.failedFor)

\* the editor was closed by the completion callback of a quiz delete
C26_Witness ==
    /\ admin.by = "onComplete" /\ admin.from = "manage"
    /\ Settled({"admin.deleteQuiz"}) /\ last.out.kind = "resolved"
    /\ AdminShown(admin) = "LessonQuizManager"

\* request r of LessonQuizManager is handed to fetch() in this step
IssuedByManager(r) ==
    /\ r.owner \in ManagerOwners
    /\ CopiesIn(r, inflight') > CopiesIn(r, inflight)

\* C27: a lessons request is issued only after a category list that is not
\* empty was received; it is for the first category of that list as long as
\* the operator selected none, and for the category the operator selected
\* afterwards.
C27_LessonsAfterCategories ==
    [][\A r \in BagToSet(inflight') :
            IssuedByManager(r) /\ r.op = "learn.getLessons" =>
                /\ manager'.first # <<>>
                /\ r.arg = IF manager'.chosen # <<>> THEN manager'.chosen
                           ELSE manager'.first]_vars

\* C28: once api.learn.getCategories has resolved, the manager comes to show
\* its content instead of the loading screen.
C28_ManagerLeavesLoading ==
    (manager.mounted /\ manager.by = "fetchCategories" /\ last.out.kind = "resolved")
        ~> (ManagerScreen(manager) = "content")

\* C29: a declined confirmation of a lesson deletion makes no call and
\* changes nothing; while a confirmed deletion or the re-fetch that follows
\* its success is in flight the loading flag is set; the step in which a
\* deletion fails issues no lessons request and clears the loading flag.
C29_DeleteLessonSequencing ==
    /\ [][manager'.by = "declined" =>
            /\ inflight' = inflight
            /\ manager' = [manager EXCEPT !.by = "declined"]]_vars
    /\ []((\E r \in BagToSet(inflight) :
                /\ r.owner = "LessonQuizManager.handleDeleteLesson"
                /\ r.op \in {"admin.deleteLesson", "learn.getLessons"})
            => manager.isLoading)
    /\ [][manager'.by = "deleteFailed" /\ manager' # manager =>
            /\ ~manager'.isLoading
            /\ \A r \in BagToSet(inflight') :
                    IssuedByManager(r) => r.op # "learn.getLessons"]_vars

\* C30: when no promote or demote call is in flight, the list shows every
\* role change that succeeded; a call that fails leaves the list as it was.
C30_NoLostRoleUpdate ==
    /\ []((userMgmt.mounted
            /\ \A r \in BagToSet(inflight) : r.op # "admin.promoteUser")
          => userMgmt.users = userMgmt.expected)
    /\ [][userMgmt'.by = "promotionFailed" => userMgmt'.users = userMgmt.users]_vars
====
